---- MODULE Spec2Model ----
(***************************************************************************)
(* VesperNet Crossbridge: the Hayes modem emulator (ModemEmulator,         *)
(* CommandProcessor, SimpleCompression of modem_utils.py) as a state       *)
(* machine.  Byte strings are sequences of byte values (0..255); the text  *)
(* operations of the code (in, startswith, split, strip, upper, decode)    *)
(* are operators on such sequences.                                        *)
(***************************************************************************)
EXTENDS Integers, Sequences, FiniteSets, TLC

\* ---------------------------------------------------------------- bounds
\* TCP endpoints one run may open (each ATD opens one).
MaxDials == 2
\* Chunks one bridging session may read, both directions together.
MaxSessionReads == 2

\* ------------------------------------------------------- byte-string tools
\* bytes `in` bytes
Contains(s, w) ==
    \E i \in 1..(Len(s) - Len(w) + 1) : SubSeq(s, i, i + Len(w) - 1) = w

\* bytes.startswith
StartsWith(s, w) == Len(s) >= Len(w) /\ SubSeq(s, 1, Len(w)) = w

\* bytes.find of a single byte (0 when absent)
IndexOf(s, b) ==
    IF \E i \in 1..Len(s) : s[i] = b
    THEN CHOOSE i \in 1..Len(s) : s[i] = b /\ \A j \in 1..(i - 1) : s[j] # b
    ELSE 0

\* str.strip(): the ASCII characters for which str.isspace() holds
Whitespace == {32, 9, 10, 11, 12, 13, 28, 29, 30, 31}

RECURSIVE LStrip(_)
LStrip(s) == IF s # <<>> /\ s[1] \in Whitespace THEN LStrip(Tail(s)) ELSE s

RECURSIVE RStrip(_)
RStrip(s) ==
    IF s # <<>> /\ s[Len(s)] \in Whitespace
    THEN RStrip(SubSeq(s, 1, Len(s) - 1)) ELSE s

Strip(s) == RStrip(LStrip(s))

\* str.upper() on the ASCII range
Upper(s) == [i \in 1..Len(s) |-> IF s[i] \in 97..122 THEN s[i] - 32 ELSE s[i]]

\* bytes.decode('utf-8', errors='ignore'), for streams whose bytes >= 0x80
\* never form a valid multi-byte sequence: such bytes are dropped
Decode(s) == SelectSeq(s, LAMBDA b : b < 128)

\* str(int) / f"{n}" for n >= 0
RECURSIVE FormatInt(_)
FormatInt(n) ==
    IF n < 10 THEN <<48 + n>> ELSE FormatInt(n \div 10) \o <<48 + (n % 10)>>

\* str.split(sep) for a one-byte separator
RECURSIVE SplitOn(_, _)
SplitOn(s, sep) ==
    LET i == IndexOf(s, sep) IN
    IF i = 0 THEN <<s>>
    ELSE <<SubSeq(s, 1, i - 1)>> \o SplitOn(SubSeq(s, i + 1, Len(s)), sep)

\* ------------------------------------------------------------ byte strings
CR == 13
LF == 10
kwAT == <<65,84>>   \* 'AT'
kwATD == <<65,84,68>>   \* 'ATD'
kwATDT == <<65,84,68,84>>   \* 'ATDT'
kwATH == <<65,84,72>>   \* 'ATH'
kwATV0 == <<65,84,86,48>>   \* 'ATV0'
kwATV1 == <<65,84,86,49>>   \* 'ATV1'
kwATZ == <<65,84,90>>   \* 'ATZ'
kwATZ0 == <<65,84,90,48>>   \* 'ATZ0'
kwATA == <<65,84,65>>   \* 'ATA'
kwATS == <<65,84,83>>   \* 'ATS'
kwATpC == <<65,84,37,67>>   \* 'AT%C'
kwATaQ == <<65,84,38,81>>   \* 'AT&Q'
kwATaF == <<65,84,38,70>>   \* 'AT&F'
kwATaF0 == <<65,84,38,70,48>>   \* 'AT&F0'
txtOK == <<79,75>>   \* 'OK'
txtERROR == <<69,82,82,79,82>>   \* 'ERROR'
txtNOCARRIER == <<78,79,32,67,65,82,82,73,69,82>>   \* 'NO CARRIER'
txtBUSY == <<66,85,83,89>>   \* 'BUSY'
txtNODIALTONE == <<78,79,32,68,73,65,76,84,79,78,69>>   \* 'NO DIALTONE'
CRLF == <<13,10>>   \* '\r\n'
msgOK == <<13,10,79,75,13,10>>   \* '\r\nOK\r\n'
msgNoCarrier == <<13,10,78,79,32,67,65,82,82,73,69,82,13,10>>   \* '\r\nNO CARRIER\r\n'
msgConnectPrefix == <<13,10,67,79,78,78,69,67,84,32>>   \* '\r\nCONNECT '
txtCompression == <<32,67,79,77,80,82,69,83,83,73,79,78>>   \* ' COMPRESSION'
txtErrorCorrection == <<32,69,82,82,79,82,95,67,79,82,82,69,67,84,73,79,78>>   \* ' ERROR_CORRECTION'
msgDialing == <<13,10,68,105,97,108,105,110,103,46,46,46,13,10>>   \* '\r\nDialing...\r\n'
msgRinging == <<13,10,82,105,110,103,105,110,103,46,46,46,13,10>>   \* '\r\nRinging...\r\n'
msgCarrier == <<13,10,67,97,114,114,105,101,114,32,100,101,116,101,99,116,101,100,13,10>>   \* '\r\nCarrier detected\r\n'
txtSignal == <<13,10,83,105,103,110,97,108,32,81,117,97,108,105,116,121,58,32>>   \* '\r\nSignal Quality: '
txtLine == <<13,10,76,105,110,101,32,81,117,97,108,105,116,121,58,32>>   \* '\r\nLine Quality: '
txtType == <<13,10,67,111,110,110,101,99,116,105,111,110,32,84,121,112,101,58,32>>   \* '\r\nConnection Type: '
txtPct == <<37,13,10>>   \* '%\r\n'
kwNEGOTIATE == <<78,69,71,79,84,73,65,84,69,58>>   \* 'NEGOTIATE:'
kwAuthFailed == <<65,117,116,104,101,110,116,105,99,97,116,105,111,110,32,102,97,105,108,101,100>>   \* 'Authentication failed'
escPlus == <<43,43,43>>   \* '+++'
prefixCompressed == <<27,67>>   \* b'\x1b\x43'
tV34p == <<86,46,51,52,43>>   \* 'V.34+'
tV34 == <<86,46,51,52>>   \* 'V.34'
tK56 == <<75,53,54,102,108,101,120>>   \* 'K56flex'
tVFC == <<86,46,70,67>>   \* 'V.FC'
authString == <<117,58,112,13,10>>   \* 'u:p\r\n' (username u, password p)

\* ------------------------------------------------------------------ state
VARIABLES
    connected,                  \* ConnectionState.connected
    in_command_mode,            \* ConnectionState.in_command_mode
    socket_connection,          \* ConnectionState.socket_connection (0 = None)
    verbose_responses,          \* CommandProcessor.verbose_responses
    compression_enabled,        \* CommandProcessor.compression_enabled
    error_correction_enabled,   \* CommandProcessor.error_correction_enabled
    s_registers,                \* CommandProcessor.s_registers
    codec_enabled,              \* SimpleCompression.compression_enabled
    connect_speed,              \* ModemConfig.connect_speed
    is_windows,                 \* ModemEmulator.is_windows
    connection_quality,         \* ModemEmulator.connection_quality
    sock,                       \* the SocketTransport objects created so far
    sockSent,                   \* chunks written to a SocketTransport since the last command read
    serialOut,                  \* writes to serial since the last command read
    pc,                         \* position of _command_processing_loop
    command_buffer,             \* local of _command_processing_loop
    socket_transport,           \* local of _handle_dial_command (0 = none)
    srvStream,                  \* bytes the server sends within the handshake deadlines
    srvOff,                     \* how many of them the handshake has read
    authLen,                    \* how many of them _authenticate read
    dialMark,                   \* Len(serialOut) when the current dial began
    negotiated,                 \* speed field parsed by _speed_negotiation
    s2k,                        \* task _bridge_serial_to_socket
    k2s,                        \* task _bridge_socket_to_serial
    escape_buffer,              \* local of _bridge_serial_to_socket
    session,                    \* history of the current bridging session
    event,                      \* what the last step of the command loop did
    lastCmd,                    \* the command last given to _process_command
    pppPc,                      \* bridge_ppp_connection: position in its loop
    pppResult,                  \* bridge_ppp_connection: the value returned
    since_activity,             \* bridge_ppp_connection: current_time - last_activity
    inactivity_timeout,         \* config['inactivity_timeout']
    emu_modem,                  \* main: emu_modem (-e), who calls bridge_ppp_connection
    pppEscape,                  \* bridge_ppp_connection: escape_buffer
    consecutive_errors,         \* bridge_ppp_connection: consecutive_errors
    pppSerialIn,                \* chunks bridge_ppp_connection read from serial_port
    pppSockIn,                  \* chunks bridge_ppp_connection received from the socket
    pppSockSent,                \* bytes that reached the server socket
    pppSerialOut,               \* chunks bridge_ppp_connection wrote to serial_port
    pppSockClosed,              \* socket_connection.close() has run
    err_runs,                   \* errors in a row per direction since its last data
    serial_connection,          \* a serial_utils endpoint object and its OS handle
    ep_peer,                    \* bytes the endpoint's peer received from the last write
    ep_last,                    \* the last method called on the endpoint, and its result
    ep_close_called,            \* close() has run on the endpoint
    main_pc,                    \* main: position
    server_addr,                \* main: server_addr, split at its first ':'
    device,                     \* main: the kind of device path given
    serial_port,                \* main: serial_port
    retry_count,                \* main: retry_count
    connection_retries,         \* main: connection_retries
    main_fatal,                 \* main: the fatal error it logged, if any
    main_pending,               \* main: value of the return statement reached in the try
    main_return,                \* main: the value returned (-1 while running)
    em_pc,                      \* emulate_modem: position
    em_in_command_mode,         \* emulate_modem: in_command_mode
    em_connected,               \* emulate_modem: connected
    em_socket,                  \* emulate_modem: socket_connection (None, or an object open or closed)
    em_command_buffer,          \* emulate_modem: command_buffer
    connection_established,     \* emulate_modem: connection_established
    dial_count,                 \* emulate_modem: dial_count
    ppp_data_received,          \* emulate_modem: ppp_data_received
    first_connect_time,         \* emulate_modem: first_connect_time against time.time()
    command_parts,              \* emulate_modem: the parts its for loop has yet to visit
    bridge_result,              \* emulate_modem: bridge_result, and the call that produced it
    em_sent,                    \* chunks emulate_modem gave to sendall that reached the server
    em_serial_out,              \* what emulate_modem wrote to serial_port
    em_data,                    \* emulate_modem: data of the last read
    em_reads,                   \* non-empty reads emulate_modem has made
    em_dials                    \* connections emulate_modem has opened

connVars == <<connected, in_command_mode, socket_connection>>
procVars == <<verbose_responses, compression_enabled, error_correction_enabled,
              s_registers>>
confVars == <<connect_speed, is_windows, connection_quality>>
dialVars == <<socket_transport, srvStream, srvOff, authLen, dialMark, negotiated>>
taskVars == <<s2k, k2s, escape_buffer, session>>

emuVars == <<connected, in_command_mode, socket_connection, verbose_responses,
             compression_enabled, error_correction_enabled, s_registers,
             codec_enabled,
             connect_speed, is_windows, connection_quality, sock, sockSent,
             serialOut, pc, command_buffer, socket_transport, srvStream, srvOff,
             authLen, dialMark, negotiated, s2k, k2s, escape_buffer, session,
             event, lastCmd>>

callVars == <<inactivity_timeout, emu_modem>>

syncVars == <<pppPc, pppResult, since_activity, callVars, pppEscape,
              consecutive_errors, pppSerialIn, pppSockIn, pppSockSent,
              pppSerialOut, pppSockClosed, err_runs>>

epVars == <<serial_connection, ep_peer, ep_last, ep_close_called>>

mainVars == <<main_pc, server_addr, device, serial_port, retry_count,
              connection_retries, main_fatal, main_pending, main_return>>

modemVars == <<em_pc, em_in_command_mode, em_connected, em_socket,
               em_command_buffer, connection_established, dial_count,
               ppp_data_received, first_connect_time, command_parts,
               bridge_result, em_sent, em_serial_out, em_data, em_reads,
               em_dials>>

\* what the actions of one program leave alone: the other programs' variables
nonEmuVars == <<syncVars, epVars, mainVars, modemVars>>
nonSyncVars == <<emuVars, epVars, mainVars, modemVars>>
nonEpVars == <<emuVars, syncVars, mainVars, modemVars>>
nonMainVars == <<emuVars, syncVars, epVars, modemVars>>
nonModemVars == <<emuVars, syncVars, epVars, mainVars>>

vars == <<emuVars, syncVars, epVars, mainVars, modemVars>>

\* ------------------------------------------------------------------ inputs
\* CommandProcessor._determine_connection_type: random.choice by speed band
\* (the bands up to 28800 and up to 33600)
ConnectionTypes(speed) ==
    IF speed <= 28800 THEN {tV34, tVFC} ELSE {tV34p, tK56}

\* The configurations a run may start with: ModemConfig.connect_speed,
\* is_windows, and the connection_quality drawn at construction
Configs == {
    [connect_speed |-> 33600, is_windows |-> FALSE,
     quality |-> [signal_strength |-> 85, line_quality |-> 90,
                  connection_type |-> tV34p]],
    [connect_speed |-> 28800, is_windows |-> TRUE,
     quality |-> [signal_strength |-> 100, line_quality |-> 100,
                  connection_type |-> tVFC]]
}

\* What the serial client may send in command mode (one serial read each)
CmdChunks == {
    <<65,84,68,13>>,                            \* 'ATD\r'
    <<97,116,100,116,53,13>>,                   \* 'atdt5\r'
    <<65,84,72,13>>,                            \* 'ATH\r'
    <<65,84,72,48,13>>,                         \* 'ATH0\r'
    <<65,84,79,13>>,                            \* 'ATO\r'
    <<65,84,13>>,                               \* 'AT\r'
    <<65,84,86,48,13>>,                         \* 'ATV0\r'
    <<65,84,37,67,49,13>>,                      \* 'AT%C1\r'
    <<65,84,38,70,13>>,                         \* 'AT&F\r'
    <<65,84,68,13,65,84,72,13>>,                \* 'ATD\rATH\r'
    <<65,84,68,13,65,84,68,13>>,                \* 'ATD\rATD\r'
    <<120,65,84,72,13>>                         \* 'xATH\r'
}

\* What the server may send within the handshake deadlines of one dial
ServerStreams == {
    <<>>,
    <<65,117,116,104,101,110,116,105,99,97,116,105,111,110,32,102,97,105,108,101,100,13,10>>,   \* 'Authentication failed\r\n'
    <<78,69,71,79,84,73,65,84,69,58,50,56,56,48,48,58,86,46,51,52,10>>,   \* 'NEGOTIATE:28800:V.34\n'
    <<79,75,10,78,69,71,79,84,73,65,84,69,58,51,51,54,48,48,58,86,46,51,52,43,10>>,   \* 'OK\nNEGOTIATE:33600:V.34+\n'
    <<69,82,82,79,82,58,98,117,115,121,10>>,   \* 'ERROR:busy\n'
    <<69,82,82,79,82,58,98,117,115,121,10,78,69,71,79,84,73,65,84,69,58,50,56,56,48,48,58,86,46,51,52,10>>   \* 'ERROR:busy\nNEGOTIATE:28800:V.34\n'
}

\* Where the TCP stream of a handshake may be cut into reads: after a line
\* feed, a colon, a blank, the G of NEGOTIATE, a digit 0, or at its end
CutAfter == {10, 58, 32, 71, 48}
ReadCuts(stream, from) ==
    {k \in (from + 1)..Len(stream) : k = Len(stream) \/ stream[k] \in CutAfter}

\* What the serial client may send while bridging (one serial read each)
SerialChunks == {
    <<126,255,3,126>>,                          \* a PPP-like frame
    <<43,43,43>>,                               \* '+++'
    <<43>>,                                     \* '+'
    <<43,43,43,126>>                            \* '+++~'
}

\* What the server may send while bridging (one socket read each)
SocketChunks == {
    <<126,33,126>>,                             \* a PPP-like frame
    <<255,3,192,33,5,0,0,4>>,                   \* LCP Terminate-Request
    <<255,3,192,33,6,0,0,4>>,                   \* LCP Terminate-Ack
    <<27,67,120,1,1,3,0,252,255,126,33,126,2,61,1,30>>
                                                \* 1B 43, then zlib.compress(b'~!~', 0)
}

\* ------------------------------------------------------- SocketTransport
\* The TCP endpoint class that _handle_dial_command imports from crossbridge;
\* its contract is the Endpoint of the data model: read, write, close, alive?
NoSock == [state |-> "unopened", peerAlive |-> FALSE, closes |-> 0]

\* SocketTransport.connect succeeded
SockConnect(id) ==
    [sock EXCEPT ![id] = [state |-> "open", peerAlive |-> TRUE, closes |-> 0]]

\* SocketTransport.close
SockClose(id) ==
    [sock EXCEPT ![id] = [state |-> "closed", peerAlive |-> FALSE,
                          closes |-> IF @.state = "open" THEN @.closes + 1 ELSE @.closes]]

\* SocketTransport.is_connected
SockIsConnected(endpoint) == endpoint.state = "open" /\ endpoint.peerAlive

\* ------------------------------------------------------ CommandProcessor
\* CommandProcessor._send_response: the bytes written for a response word
FormatResponse(verbose, response) ==
    IF verbose THEN CRLF \o response \o CRLF
    ELSE IF response = txtOK THEN <<48, 13>>
    ELSE IF response = txtERROR THEN <<52, 13>>
    ELSE IF response = txtNOCARRIER THEN <<51, 13>>
    ELSE IF response = txtBUSY THEN <<55, 13>>
    ELSE IF response = txtNODIALTONE THEN <<54, 13>>
    ELSE CRLF \o response \o CRLF

\* CommandProcessor.extract_command; <<>> stands for None
extract_command(data) ==
    LET command == Upper(Strip(Decode(data))) IN
    IF StartsWith(command, kwAT) THEN command ELSE <<>>

\* int(text) succeeds (decimal digits; the inputs carry no sign or blanks)
IsInt(text) == text # <<>> /\ \A i \in 1..Len(text) : text[i] \in 48..57

\* command[n:]
From(command, n) == SubSeq(command, n + 1, Len(command))

\* ------------------------------------------------------------ S registers
\* CommandProcessor.__init__: self.s_registers
DefaultRegisters ==
    [n \in 0..12 |-> CASE n = 2 -> 43 [] n = 3 -> 13 [] n = 4 -> 10 [] n = 5 -> 8
                       [] n = 6 -> 2 [] n = 7 -> 50 [] n = 8 -> 2 [] n = 9 -> 6
                       [] n = 10 -> 14 [] n = 11 -> 95 [] n = 12 -> 50
                       [] OTHER -> 0]

\* self.s_registers[n] = value
SetRegister(regs, n, value) ==
    [k \in DOMAIN regs \cup {n} |-> IF k = n THEN value ELSE regs[k]]

\* _reset_modem_settings: s_registers.update({0: 0, 7: 50, 12: 50})
ResetRegisters(regs) ==
    SetRegister(SetRegister(SetRegister(regs, 0, 0), 7, 50), 12, 50)

\* the value of a string of decimal digits
RECURSIVE DigitsValue(_)
DigitsValue(text) ==
    IF text = <<>> THEN 0
    ELSE 10 * DigitsValue(SubSeq(text, 1, Len(text) - 1)) + (text[Len(text)] - 48)

\* int(text): surrounding blanks are stripped, one sign may lead, then decimal
\* digits; anything else raises ValueError (ok = FALSE)
ParseInt(text) ==
    LET t == Strip(text)
        signed == t # <<>> /\ t[1] \in {43, 45}
        digits == IF signed THEN Tail(t) ELSE t
    IN IF IsInt(digits)
       THEN [ok |-> TRUE,
             val |-> IF signed /\ t[1] = 45 THEN 0 - DigitsValue(digits)
                     ELSE DigitsValue(digits)]
       ELSE [ok |-> FALSE, val |-> 0]

\* f"{value:03d}": at least three characters, zero-padded after the sign
Format03d(value) ==
    LET mag == FormatInt(IF value < 0 THEN 0 - value ELSE value)
        sign == IF value < 0 THEN <<45>> ELSE <<>>
        pad == IF Len(sign) + Len(mag) >= 3 THEN <<>>
               ELSE [i \in 1..(3 - Len(sign) - Len(mag)) |-> 48]
    IN sign \o pad \o mag

\* CommandProcessor._handle_s_register_command: the registers afterwards and
\* the bytes written, in order
handle_s_register_command(command, v, regs) ==
    LET say(resp) == <<FormatResponse(v, resp)>>
        fail == [regs |-> regs, out |-> say(txtERROR)]
    IN
    IF IndexOf(command, 61) > 0 THEN
        LET parts == SplitOn(From(command, 3), 61) IN
        IF Len(parts) = 2 THEN
            LET register_num == ParseInt(parts[1])
                value == ParseInt(parts[2])
            IN IF ~register_num.ok \/ ~value.ok THEN fail
               ELSE IF 0 <= register_num.val /\ register_num.val <= 255
               THEN [regs |-> SetRegister(regs, register_num.val, value.val),
                     out |-> say(txtOK)]
               ELSE fail
        ELSE fail
    ELSE IF IndexOf(command, 63) > 0 THEN
        LET register_num == ParseInt(SubSeq(command, 4, Len(command) - 1)) IN
        IF ~register_num.ok THEN fail
        ELSE IF register_num.val \in DOMAIN regs
        THEN [regs |-> regs,
              out |-> <<FormatResponse(v, Format03d(regs[register_num.val])),
                        FormatResponse(v, txtOK)>>]
        ELSE fail
    ELSE [regs |-> regs, out |-> say(txtOK)]

\* CommandProcessor.process_basic_command for the families the inputs reach
\* (AT, ATZ, ATE, ATV, ATM, ATL, ATS, ATA, AT&D, AT&C, AT&K, AT&R, AT&S,
\* AT%C, AT&Q, AT&F, and the final else that answers OK): the new settings and the
\* bytes written, in order.
process_basic_command(command, v, c, e, regs) ==
    LET keep(resp) == [verbose |-> v, compression |-> c, correction |-> e,
                       regs |-> regs, out |-> <<FormatResponse(v, resp)>>]
        arg == From(command, 4)
    IN
    IF command = kwAT THEN keep(txtOK)
    ELSE IF command \in {kwATZ, kwATZ0} THEN
        [verbose |-> TRUE, compression |-> c, correction |-> e,
         regs |-> ResetRegisters(regs),
         out |-> <<FormatResponse(TRUE, txtOK)>>]
    ELSE IF command \in {<<65,84,69,48>>, <<65,84,69,49>>} THEN keep(txtOK)
    ELSE IF command = kwATV0 THEN
        [verbose |-> FALSE, compression |-> c, correction |-> e,
         regs |-> regs, out |-> <<FormatResponse(FALSE, <<48>>)>>]
    ELSE IF command = kwATV1 THEN
        [verbose |-> TRUE, compression |-> c, correction |-> e,
         regs |-> regs, out |-> <<FormatResponse(TRUE, txtOK)>>]
    ELSE IF StartsWith(command, <<65,84,77>>) \/ StartsWith(command, <<65,84,76>>) THEN
        IF Len(command) > 3 /\ ~IsInt(From(command, 3))
        THEN keep(txtERROR) ELSE keep(txtOK)
    ELSE IF StartsWith(command, kwATS) THEN
        LET r == handle_s_register_command(command, v, regs) IN
        [verbose |-> v, compression |-> c, correction |-> e,
         regs |-> r.regs, out |-> r.out]
    ELSE IF StartsWith(command, kwATA) THEN keep(txtNOCARRIER)
    ELSE IF StartsWith(command, <<65,84,38,68>>) \/ StartsWith(command, <<65,84,38,67>>) THEN
        IF Len(command) > 4 /\ ~IsInt(arg) THEN keep(txtERROR) ELSE keep(txtOK)
    ELSE IF \/ StartsWith(command, <<65,84,38,75>>)
            \/ StartsWith(command, <<65,84,38,82>>)
            \/ StartsWith(command, <<65,84,38,83>>) THEN keep(txtOK)
    ELSE IF StartsWith(command, kwATpC) THEN
        LET setting == IF Len(command) > 4 THEN arg ELSE <<48>> IN
        IF setting = <<49>> THEN
            [verbose |-> v, compression |-> TRUE, correction |-> e,
             regs |-> regs, out |-> <<FormatResponse(v, txtOK)>>]
        ELSE IF setting = <<48>> THEN
            [verbose |-> v, compression |-> FALSE, correction |-> e,
             regs |-> regs, out |-> <<FormatResponse(v, txtOK)>>]
        ELSE keep(txtERROR)
    ELSE IF StartsWith(command, kwATaQ) THEN
        LET setting == IF Len(command) > 4 THEN arg ELSE <<48>> IN
        IF setting = <<53>> THEN
            [verbose |-> v, compression |-> c, correction |-> TRUE,
             regs |-> regs, out |-> <<FormatResponse(v, txtOK)>>]
        ELSE IF setting = <<48>> THEN
            [verbose |-> v, compression |-> c, correction |-> FALSE,
             regs |-> regs, out |-> <<FormatResponse(v, txtOK)>>]
        ELSE keep(txtERROR)
    ELSE IF command \in {kwATaF, kwATaF0} THEN
        [verbose |-> TRUE, compression |-> FALSE, correction |-> FALSE,
         regs |-> ResetRegisters(regs),
         out |-> <<FormatResponse(TRUE, txtOK)>>]
    ELSE keep(txtOK)

\* ------------------------------------------------------- SimpleCompression
\* zlib.adler32 of a byte string, as the pair (a, b) of its two 16-bit halves
RECURSIVE Adler(_)
Adler(s) ==
    IF s = <<>> THEN <<1, 0>>
    ELSE LET p == Adler(SubSeq(s, 1, Len(s) - 1))
             a == (p[1] + s[Len(s)]) % 65521
         IN <<a, (p[2] + a) % 65521>>

\* zlib.decompress on the streams the inputs carry: a stream of one final
\* stored block (78 01, 01, LEN, NLEN, payload, Adler-32) inflates to its
\* payload; anything else raises zlib.error, for which <<-1>> stands.
ZlibDecompress(z) ==
    IF /\ Len(z) >= 11
       /\ z[1] = 120 /\ z[2] = 1 /\ z[3] = 1
       /\ z[6] = 255 - z[4] /\ z[7] = 255 - z[5]
       /\ Len(z) = 11 + z[4] + 256 * z[5]
       /\ LET payload == SubSeq(z, 8, Len(z) - 4)
              ck == Adler(payload)
          IN SubSeq(z, Len(z) - 3, Len(z)) =
                 <<ck[2] \div 256, ck[2] % 256, ck[1] \div 256, ck[1] % 256>>
    THEN SubSeq(z, 8, Len(z) - 4)
    ELSE <<-1>>

\* a chunk long enough for compress_data to act on: 7E, 62 zero bytes, 7E
LongFrame == <<126>> \o [i \in 1..62 |-> 0] \o <<126>>

\* zlib.compress(data, level=1) on the one chunk of the inputs long enough to
\* reach it (the bytes zlib 1.2.13 produces for LongFrame)
ZlibCompress(data) ==
    IF data = LongFrame THEN <<120,1,171,99,160,8,212,1,0,32,62,0,253>>
    ELSE data

\* SimpleCompression.compress_data: a chunk of 64 bytes or more is deflated
\* when the codec is enabled, and sent as 1B 43 + stream if that is shorter
\* than 0.8 of the chunk
compress_data(enabled, data) ==
    IF ~enabled \/ Len(data) < 64 THEN data
    ELSE LET compressed == ZlibCompress(data) IN
         IF Len(compressed) * 10 < Len(data) * 8
         THEN prefixCompressed \o compressed
         ELSE data

\* SimpleCompression.decompress_data
decompress_data(data) ==
    IF data = <<>> \/ Len(data) < 3 THEN data
    ELSE IF SubSeq(data, 1, 2) = prefixCompressed
         THEN LET d == ZlibDecompress(From(data, 2)) IN
              IF d = <<-1>> THEN data ELSE d
         ELSE data

\* ----------------------------------------------------------- ModemEmulator
\* _process_command: which handler a command goes to
IsDial(command) == StartsWith(command, kwATDT) \/ StartsWith(command, kwATD)
IsHangup(command) == StartsWith(command, kwATH)

\* _command_processing_loop: the inner while goes on while a CR or LF is buffered
HasTerminator(buf) == IndexOf(buf, CR) > 0 \/ IndexOf(buf, LF) > 0

\* _command_processing_loop: where command_buffer.split(b'\r', 1) or
\* split(b'\n', 1) cuts
SplitAt(buf) == IF IndexOf(buf, CR) > 0 THEN IndexOf(buf, CR) ELSE IndexOf(buf, LF)

\* number of buffered segments that _process_command will dial for
RECURSIVE DialsIn(_)
DialsIn(buf) ==
    IF ~HasTerminator(buf) THEN 0
    ELSE LET i == SplitAt(buf) IN
         (IF IsDial(extract_command(SubSeq(buf, 1, i - 1))) THEN 1 ELSE 0)
         + DialsIn(From(buf, i))

\* SocketTransport objects not yet constructed
FreeSocks == {i \in 1..MaxDials : sock[i].state = "unopened"}

\* _authenticate: the verdict on the bytes of its one read
AuthAccepted(response) == ~Contains(response, kwAuthFailed)

\* _send_connection_sequence: the CONNECT line
ConnectMessage(speed, compression, correction) ==
    msgConnectPrefix \o FormatInt(speed)
        \o (IF compression THEN txtCompression ELSE <<>>)
        \o (IF correction THEN txtErrorCorrection ELSE <<>>)
        \o CRLF

\* _send_connection_sequence: the informational lines before CONNECT
ConnectionLines(windows, quality) ==
    IF windows THEN <<>>
    ELSE << msgDialing, msgRinging,
            txtSignal \o FormatInt(quality.signal_strength) \o txtPct,
            msgCarrier,
            txtLine \o FormatInt(quality.line_quality) \o txtPct,
            txtType \o quality.connection_type \o CRLF >>

\* _speed_negotiation: the for loop over the lines of one read; the speed
\* field of the first line that carries NEGOTIATE: and has two fields,
\* <<-1>> when the loop ends without returning
RECURSIVE NegotiateLines(_)
NegotiateLines(lines) ==
    IF lines = <<>> THEN <<-1>>
    ELSE LET line == Head(lines)
             parts == SplitOn(Strip(line), 58)
         IN IF Contains(line, kwNEGOTIATE) /\ Len(parts) >= 2
            THEN Strip(parts[2])
            ELSE NegotiateLines(Tail(lines))

\* _speed_negotiation: what one read of the loop yields
NegotiateRead(data) ==
    LET response == Decode(data) IN
    IF data # <<>> /\ Contains(response, kwNEGOTIATE)
    THEN NegotiateLines(SplitOn(response, LF))
    ELSE <<-1>>

\* _bridge_serial_to_socket: the escape test on the accumulated buffer
EscapeDetected(buf) == Contains(buf, escPlus)

\* _bridge_serial_to_socket: escape_buffer[-10:]
TrimEscape(buf) == IF Len(buf) > 10 THEN SubSeq(buf, Len(buf) - 9, Len(buf)) ELSE buf

\* the locals of _handle_dial_command before a dial and after it has returned
NoDial ==
    /\ socket_transport' = 0
    /\ srvStream' = <<>>
    /\ srvOff' = 0
    /\ authLen' = 0
    /\ negotiated' = <<>>

\* History of a bridging session: escape / peerClosed: that direction was the
\* first to signal the stop; lcp: a chunk with an LCP terminate pattern was
\* read from the socket; sr, kr: chunks read per direction; mark:
\* Len(serialOut) when the session began
NoSession == [escape |-> FALSE, peerClosed |-> FALSE, lcp |-> FALSE,
              sr |-> 0, kr |-> 0, mark |-> 0]

EmulatorInit ==
    /\ connected = FALSE
    /\ in_command_mode = TRUE
    /\ socket_connection = 0
    /\ verbose_responses = TRUE
    /\ compression_enabled = FALSE
    /\ error_correction_enabled = FALSE
    /\ s_registers = DefaultRegisters
    /\ codec_enabled = FALSE
    /\ \E c \in Configs :
          /\ c.quality.connection_type \in ConnectionTypes(c.connect_speed)
          /\ connect_speed = c.connect_speed
          /\ is_windows = c.is_windows
          /\ connection_quality = c.quality
    /\ sock = [i \in 1..MaxDials |-> NoSock]
    /\ sockSent = <<>>
    /\ serialOut = <<>>
    /\ pc = "loop"
    /\ command_buffer = <<>>
    /\ socket_transport = 0
    /\ srvStream = <<>>
    /\ srvOff = 0
    /\ authLen = 0
    /\ dialMark = 0
    /\ negotiated = <<>>
    /\ s2k = "idle"
    /\ k2s = "idle"
    /\ escape_buffer = <<>>
    /\ session = NoSession
    /\ event = "init"
    /\ lastCmd = <<>>

\* no error yet in either direction
NoErrors == [serial |-> 0, socket |-> 0]

\* bridge_ppp_connection has not been called
BridgeNotCalled ==
    /\ pppPc = "off"
    /\ pppResult = "none"
    /\ since_activity = 0
    /\ inactivity_timeout = 300
    /\ emu_modem = TRUE
    /\ pppEscape = <<>>
    /\ consecutive_errors = 0
    /\ pppSerialIn = <<>>
    /\ pppSockIn = <<>>
    /\ pppSockSent = <<>>
    /\ pppSerialOut = <<>>
    /\ pppSockClosed = FALSE
    /\ err_runs = NoErrors

\* no serial_utils endpoint has been constructed
NoEndpoint ==
    /\ serial_connection = [kind |-> "none", sock |-> FALSE,
                            is_closed |-> FALSE, os_open |-> FALSE]
    /\ ep_peer = <<>>
    /\ ep_last = [op |-> "none", arg |-> <<>>, data |-> <<>>, count |-> 0,
                  ok |-> FALSE, after_close |-> FALSE]
    /\ ep_close_called = FALSE

\* main has not been called
MainNotCalled ==
    /\ main_pc = "off"
    /\ server_addr = [colon |-> FALSE, port_str |-> <<>>]
    /\ device = ""
    /\ serial_port = "none"
    /\ retry_count = 0
    /\ connection_retries = 3
    /\ main_fatal = "none"
    /\ main_pending = -1
    /\ main_return = -1

\* emulate_modem has not been called
ModemNotCalled ==
    /\ em_pc = "off"
    /\ em_in_command_mode = TRUE
    /\ em_connected = FALSE
    /\ em_socket = "none"
    /\ em_command_buffer = <<>>
    /\ connection_established = FALSE
    /\ dial_count = 0
    /\ ppp_data_received = FALSE
    /\ first_connect_time = "zero"
    /\ command_parts = <<>>
    /\ bridge_result = [call |-> "none", value |-> "none"]
    /\ em_sent = <<>>
    /\ em_serial_out = <<>>
    /\ em_data = <<>>
    /\ em_reads = 0
    /\ em_dials = 0

Init ==
    EmulatorInit /\ BridgeNotCalled /\ NoEndpoint /\ MainNotCalled /\ ModemNotCalled

\* _command_processing_loop in command mode: one non-empty serial read is
\* appended to command_buffer
CmdRead(data) ==
    /\ pc = "loop"
    /\ in_command_mode
    /\ DialsIn(command_buffer \o data) <= Cardinality(FreeSocks)
    /\ command_buffer' = command_buffer \o data
    /\ pc' = "split"
    /\ serialOut' = <<>>
    /\ dialMark' = 0
    /\ event' = "read"
    /\ sockSent' = <<>>
    /\ escape_buffer' = <<>>
    /\ session' = NoSession
    /\ UNCHANGED <<connVars, procVars, confVars, codec_enabled, sock,
                   socket_transport, srvStream, srvOff, authLen, negotiated,
                   s2k, k2s, lastCmd>>
    /\ UNCHANGED nonEmuVars

\* the segment the inner while loop is about to take, and what follows it
NextSegment == SubSeq(command_buffer, 1, SplitAt(command_buffer) - 1)
RestBuffer == From(command_buffer, SplitAt(command_buffer))
NextCommand == extract_command(NextSegment)

\* inner while loop: a segment from which extract_command returns None is dropped
DiscardSegment ==
    /\ pc = "split"
    /\ HasTerminator(command_buffer)
    /\ NextCommand = <<>>
    /\ command_buffer' = RestBuffer
    /\ event' = "discard"
    /\ NoDial
    /\ UNCHANGED <<connVars, procVars, confVars, codec_enabled, sock, sockSent,
                   serialOut, pc, dialMark, taskVars, lastCmd>>
    /\ UNCHANGED nonEmuVars

\* inner while loop ends, asyncio.sleep, back to the top of the outer loop
SplitDone ==
    /\ pc = "split"
    /\ ~HasTerminator(command_buffer)
    /\ pc' = "loop"
    /\ NoDial
    /\ event' = "idle"
    /\ lastCmd' = <<>>
    /\ UNCHANGED <<connVars, procVars, confVars, codec_enabled, sock, sockSent,
                   serialOut, command_buffer, dialMark, s2k, k2s, escape_buffer,
                   session>>
    /\ UNCHANGED nonEmuVars

BasicCommandDropsCall ==
    /\ pc = "split"
    /\ HasTerminator(command_buffer)
    /\ NextCommand # <<>>
    /\ ~IsDial(NextCommand) /\ ~IsHangup(NextCommand)
    /\ LET r == process_basic_command(NextCommand, verbose_responses,
                                      compression_enabled, error_correction_enabled,
                                      s_registers)
       IN /\ verbose_responses' = r.verbose
          /\ s_registers' = r.regs
          /\ compression_enabled' = r.compression
          /\ error_correction_enabled' = r.correction
          /\ serialOut' = serialOut \o r.out
    /\ connected' = FALSE
    /\ in_command_mode' = TRUE
    /\ command_buffer' = RestBuffer
    /\ lastCmd' = NextCommand
    /\ event' = "basic"
    /\ NoDial
    /\ UNCHANGED <<socket_connection, confVars, codec_enabled, sock, sockSent,
                   pc, dialMark, taskVars>>
    /\ UNCHANGED nonEmuVars

\* _process_command -> CommandProcessor.process_basic_command
BasicCommand ==
    /\ pc = "split"
    /\ HasTerminator(command_buffer)
    /\ NextCommand # <<>>
    /\ ~IsDial(NextCommand) /\ ~IsHangup(NextCommand)
    /\ LET r == process_basic_command(NextCommand, verbose_responses,
                                      compression_enabled, error_correction_enabled,
                                      s_registers)
       IN /\ verbose_responses' = r.verbose
          /\ s_registers' = r.regs
          /\ compression_enabled' = r.compression
          /\ error_correction_enabled' = r.correction
          /\ serialOut' = serialOut \o r.out
    /\ command_buffer' = RestBuffer
    /\ lastCmd' = NextCommand
    /\ event' = "basic"
    /\ NoDial
    /\ UNCHANGED <<connVars, confVars, codec_enabled, sock, sockSent, pc,
                   dialMark, taskVars>>
    /\ UNCHANGED nonEmuVars

CloseOwnedSkipped(owned) == sock

\* _handle_hangup_command: the owned transport, if any, is closed
CloseOwned(owned) == IF owned # 0 THEN SockClose(owned) ELSE sock

HangupKeepsConnected == [connected |-> TRUE, in_command_mode |-> TRUE,
                         socket_connection |-> 0]

\* _handle_hangup_command: the connection state it leaves
HangupState == [connected |-> FALSE, in_command_mode |-> TRUE,
                socket_connection |-> 0]

\* _process_command -> _handle_hangup_command
Hangup ==
    /\ pc = "split"
    /\ HasTerminator(command_buffer)
    /\ IsHangup(NextCommand) /\ ~IsDial(NextCommand)
    /\ sock' = CloseOwned(socket_connection)
    /\ socket_connection' = HangupState.socket_connection
    /\ connected' = HangupState.connected
    /\ in_command_mode' = HangupState.in_command_mode
    /\ serialOut' = Append(serialOut, msgOK)
    /\ command_buffer' = RestBuffer
    /\ lastCmd' = NextCommand
    /\ event' = IF socket_connection # 0 THEN "hangup_close" ELSE "hangup"
    /\ NoDial
    /\ UNCHANGED <<procVars, confVars, codec_enabled, sockSent, pc, dialMark,
                   taskVars>>
    /\ UNCHANGED nonEmuVars

\* _process_command -> _handle_dial_command, up to the first read of
\* _authenticate: the SocketTransport is constructed and connected, the
\* credentials are written
DialConnect(stream) ==
    /\ pc = "split"
    /\ HasTerminator(command_buffer)
    /\ IsDial(NextCommand)
    /\ FreeSocks # {}
    /\ LET id == CHOOSE i \in FreeSocks : \A j \in FreeSocks : i <= j IN
       /\ socket_transport' = id
       /\ sock' = SockConnect(id)
    /\ sockSent' = <<authString>>
    /\ srvStream' = stream
    /\ srvOff' = 0
    /\ authLen' = 0
    /\ negotiated' = <<>>
    /\ dialMark' = Len(serialOut)
    /\ command_buffer' = RestBuffer
    /\ lastCmd' = NextCommand
    /\ pc' = "auth"
    /\ event' = "dialing"
    /\ UNCHANGED <<connVars, procVars, confVars, codec_enabled, serialOut,
                   taskVars>>
    /\ UNCHANGED nonEmuVars

\* _handle_dial_command when SocketTransport.connect raises: the inner
\* except writes NO CARRIER and closes the transport
DialConnectFails ==
    /\ pc = "split"
    /\ HasTerminator(command_buffer)
    /\ IsDial(NextCommand)
    /\ FreeSocks # {}
    /\ LET id == CHOOSE i \in FreeSocks : \A j \in FreeSocks : i <= j IN
       /\ socket_transport' = id
       /\ sock' = [sock EXCEPT ![id] = [state |-> "closed", peerAlive |-> FALSE,
                                        closes |-> 0]]
    /\ serialOut' = Append(serialOut, msgNoCarrier)
    /\ dialMark' = Len(serialOut)
    /\ srvStream' = <<>>
    /\ srvOff' = 0
    /\ authLen' = 0
    /\ negotiated' = <<>>
    /\ command_buffer' = RestBuffer
    /\ lastCmd' = NextCommand
    /\ event' = "connect_failed"
    /\ UNCHANGED <<connVars, procVars, confVars, codec_enabled, sockSent, pc,
                   taskVars>>
    /\ UNCHANGED nonEmuVars

\* _handle_dial_command when _authenticate returns False
AuthFails ==
    /\ sock' = SockClose(socket_transport)
    /\ serialOut' = Append(serialOut, msgNoCarrier)

\* _handle_dial_command when _speed_negotiation returns False
NegotiationFails ==
    /\ sock' = SockClose(socket_transport)
    /\ serialOut' = Append(serialOut, msgNoCarrier)

\* _authenticate: its one read returns the first k bytes of what the server
\* sends (k = 0: nothing arrived before the read timed out); on rejection
\* _handle_dial_command closes the transport and writes NO CARRIER
Authenticate(k) ==
    /\ pc = "auth"
    /\ k <= 1024
    /\ LET response == SubSeq(srvStream, 1, k) IN
       IF AuthAccepted(response)
       THEN /\ pc' = "connseq"
            /\ event' = "auth_ok"
            /\ UNCHANGED <<sock, serialOut>>
       ELSE /\ AuthFails
            /\ pc' = "split"
            /\ event' = "auth_failed"
    /\ srvOff' = k
    /\ authLen' = k
    /\ UNCHANGED <<connVars, procVars, confVars, codec_enabled, sockSent,
                   command_buffer, socket_transport, srvStream, dialMark,
                   negotiated, taskVars, lastCmd>>
    /\ UNCHANGED nonEmuVars

\* _send_connection_sequence
SendConnectionSequence ==
    /\ pc = "connseq"
    /\ serialOut' = serialOut
            \o ConnectionLines(is_windows, connection_quality)
            \o <<ConnectMessage(connect_speed, compression_enabled,
                                error_correction_enabled)>>
    /\ pc' = "neg"
    /\ event' = "connect_sent"
    /\ UNCHANGED <<connVars, procVars, confVars, codec_enabled, sock, sockSent,
                   command_buffer, dialVars, taskVars, lastCmd>>
    /\ UNCHANGED nonEmuVars

\* _speed_negotiation: one read of the loop returns the bytes srvOff+1..k; on
\* success _handle_dial_command switches to data mode
NegotiationRead(k) ==
    /\ pc = "neg"
    /\ k - srvOff <= 1024
    /\ LET speed == NegotiateRead(SubSeq(srvStream, srvOff + 1, k)) IN
       IF speed # <<-1>>
       THEN /\ connected' = TRUE
            /\ in_command_mode' = FALSE
            /\ socket_connection' = socket_transport
            /\ negotiated' = speed
            /\ pc' = "split"
            /\ event' = "dial_ok"
       ELSE /\ UNCHANGED <<connVars, negotiated, pc>>
            /\ event' = "neg_read"
    /\ srvOff' = k
    /\ UNCHANGED <<procVars, confVars, codec_enabled, sock, sockSent, serialOut,
                   command_buffer, socket_transport, srvStream, authLen,
                   dialMark, taskVars, lastCmd>>
    /\ UNCHANGED nonEmuVars

\* _speed_negotiation: the 10 s deadline passes with everything the server
\* sent already read; _handle_dial_command closes the transport and writes
\* NO CARRIER
NegotiationTimeout ==
    /\ pc = "neg"
    /\ srvOff = Len(srvStream)
    /\ NegotiationFails
    /\ pc' = "split"
    /\ event' = "neg_failed"
    /\ UNCHANGED <<connVars, procVars, confVars, codec_enabled, sockSent,
                   command_buffer, dialVars, taskVars, lastCmd>>
    /\ UNCHANGED nonEmuVars

\* _bridge_ppp_data up to asyncio.wait: the two early returns, else both copy
\* tasks are created and run to their first read.  peerGone: the server has
\* closed its end since the dial.
BridgeStart(peerGone) ==
    /\ pc = "loop"
    /\ ~in_command_mode
    /\ connected
    /\ sock' = IF socket_connection # 0 /\ peerGone
               THEN [sock EXCEPT ![socket_connection].peerAlive = FALSE]
               ELSE sock
    /\ IF socket_connection = 0
       THEN /\ connected' = FALSE
            /\ in_command_mode' = TRUE
            /\ event' = "bridge_nosocket"
            /\ UNCHANGED <<socket_connection, codec_enabled, pc, taskVars>>
       ELSE IF ~SockIsConnected(sock'[socket_connection])
       THEN /\ connected' = FALSE
            /\ in_command_mode' = TRUE
            /\ event' = "bridge_deadsocket"
            /\ UNCHANGED <<socket_connection, codec_enabled, pc, taskVars>>
       ELSE /\ codec_enabled' = (codec_enabled \/ compression_enabled)
            /\ escape_buffer' = <<>>
            /\ s2k' = "read"
            /\ k2s' = "read"
            /\ session' = [NoSession EXCEPT !.mark = Len(serialOut)]
            /\ pc' = "bridging"
            /\ event' = "bridge_start"
            /\ UNCHANGED connVars
    /\ UNCHANGED <<procVars, confVars, sockSent, serialOut,
                   command_buffer, dialVars, lastCmd>>
    /\ UNCHANGED nonEmuVars

\* _bridge_serial_to_socket: a serial read returns data
S2KRead(data) ==
    /\ pc = "bridging"
    /\ s2k = "read"
    /\ session.sr + session.kr < MaxSessionReads
    /\ IF EscapeDetected(escape_buffer \o data)
       THEN /\ in_command_mode' = TRUE
            /\ connected' = FALSE
            /\ escape_buffer' = escape_buffer \o data
            /\ s2k' = "done"
            /\ session' = [session EXCEPT !.escape = connected, !.sr = @ + 1]
            /\ UNCHANGED sockSent
       ELSE /\ escape_buffer' = TrimEscape(escape_buffer \o data)
            /\ sockSent' = Append(sockSent, compress_data(codec_enabled, data))
            /\ s2k' = "yield"
            /\ session' = [session EXCEPT !.sr = @ + 1]
            /\ UNCHANGED <<connected, in_command_mode>>
    /\ UNCHANGED <<socket_connection, procVars, confVars, codec_enabled, sock,
                   serialOut, pc, command_buffer, dialVars, k2s, event, lastCmd>>
    /\ UNCHANGED nonEmuVars

\* _bridge_serial_to_socket: a serial read times out, the task sleeps
S2KEmpty ==
    /\ pc = "bridging"
    /\ s2k = "read"
    /\ s2k' = "yield"
    /\ UNCHANGED <<connVars, procVars, confVars, codec_enabled, sock, sockSent,
                   serialOut, pc, command_buffer, dialVars, k2s, escape_buffer,
                   session, event, lastCmd>>
    /\ UNCHANGED nonEmuVars

\* _bridge_serial_to_socket: back at the while test after a write or a sleep
S2KResume ==
    /\ pc = "bridging"
    /\ s2k = "yield"
    /\ s2k' = IF connected THEN "read" ELSE "done"
    /\ UNCHANGED <<connVars, procVars, confVars, codec_enabled, sock, sockSent,
                   serialOut, pc, command_buffer, dialVars, k2s, escape_buffer,
                   session, event, lastCmd>>
    /\ UNCHANGED nonEmuVars

\* the LCP Terminate-Request / Terminate-Ack patterns of the wire protocol
IsLcpTerminate(data) ==
    Contains(data, <<255,3,192,33,5>>) \/ Contains(data, <<255,3,192,33,6>>)

\* _bridge_socket_to_serial: a socket read returns data
K2SRead(data) ==
    /\ pc = "bridging"
    /\ k2s = "read"
    /\ session.sr + session.kr < MaxSessionReads
    /\ sock[socket_connection].peerAlive
    /\ serialOut' = Append(serialOut, decompress_data(data))
    /\ k2s' = "yield"
    /\ session' = [session EXCEPT !.kr = @ + 1,
                                  !.lcp = @ \/ IsLcpTerminate(data)]
    /\ UNCHANGED <<connVars, procVars, confVars, codec_enabled, sock, sockSent,
                   pc, command_buffer, dialVars, s2k, escape_buffer, event,
                   lastCmd>>
    /\ UNCHANGED nonEmuVars

\* _bridge_socket_to_serial: a socket read returns nothing; the task asks
\* is_connected and either signals the stop or sleeps.  peerGone: the read
\* was empty because the server has closed its end.
K2SEmpty(peerGone) ==
    /\ pc = "bridging"
    /\ k2s = "read"
    /\ sock' = IF peerGone
               THEN [sock EXCEPT ![socket_connection].peerAlive = FALSE]
               ELSE sock
    /\ IF ~SockIsConnected(sock'[socket_connection])
       THEN /\ connected' = FALSE
            /\ k2s' = "done"
            /\ session' = [session EXCEPT !.peerClosed = connected]
       ELSE /\ k2s' = "yield"
            /\ UNCHANGED <<connected, session>>
    /\ UNCHANGED <<in_command_mode, socket_connection, procVars, confVars,
                   codec_enabled, sockSent, serialOut, pc, command_buffer,
                   dialVars, s2k, escape_buffer, event, lastCmd>>
    /\ UNCHANGED nonEmuVars

\* _bridge_socket_to_serial: back at the while test after a write or a sleep
K2SResume ==
    /\ pc = "bridging"
    /\ k2s = "yield"
    /\ k2s' = IF connected THEN "read" ELSE "done"
    /\ UNCHANGED <<connVars, procVars, confVars, codec_enabled, sock, sockSent,
                   serialOut, pc, command_buffer, dialVars, s2k, escape_buffer,
                   session, event, lastCmd>>
    /\ UNCHANGED nonEmuVars

TaskLeftRunning(task) == task

\* _bridge_ppp_data: a done task is awaited, a pending one cancelled and
\* awaited; either way the task has finished
TaskAwaited(task) == "idle"

DisconnectLeavesDataMode == [connected |-> FALSE, in_command_mode |-> FALSE]

\* _bridge_ppp_data: the state set on the disconnect outcome
DisconnectState == [connected |-> FALSE, in_command_mode |-> TRUE]

\* _bridge_ppp_data after asyncio.wait(FIRST_COMPLETED) returns: the pending
\* task is cancelled, then the outcome is read from in_command_mode
BridgeReturn ==
    /\ pc = "bridging"
    /\ s2k = "done" \/ k2s = "done"
    /\ IF in_command_mode
       THEN /\ event' = "bridge_escape"
            /\ UNCHANGED <<connVars, sock, serialOut>>
       ELSE /\ connected' = DisconnectState.connected
            /\ in_command_mode' = DisconnectState.in_command_mode
            /\ sock' = SockClose(socket_connection)
            /\ serialOut' = Append(serialOut, msgNoCarrier)
            /\ event' = "bridge_disconnect"
            /\ UNCHANGED socket_connection
    /\ s2k' = TaskAwaited(s2k)
    /\ k2s' = TaskAwaited(k2s)
    /\ pc' = "loop"
    /\ UNCHANGED <<procVars, confVars, codec_enabled, sockSent, command_buffer,
                   dialVars, escape_buffer, session, lastCmd>>
    /\ UNCHANGED nonEmuVars

Next ==
    \/ \E data \in CmdChunks : CmdRead(data)
    \/ DiscardSegment
    \/ SplitDone
    \/ BasicCommand
    \/ Hangup
    \/ \E stream \in ServerStreams : DialConnect(stream)
    \/ DialConnectFails
    \/ \E k \in {0} \cup ReadCuts(srvStream, 0) : Authenticate(k)
    \/ SendConnectionSequence
    \/ \E k \in ReadCuts(srvStream, srvOff) : NegotiationRead(k)
    \/ NegotiationTimeout
    \/ \E peerGone \in BOOLEAN : BridgeStart(peerGone)
    \/ \E data \in SerialChunks : S2KRead(data)
    \/ S2KEmpty
    \/ S2KResume
    \/ \E data \in SocketChunks : K2SRead(data)
    \/ \E peerGone \in BOOLEAN : K2SEmpty(peerGone)
    \/ K2SResume
    \/ BridgeReturn

Spec == Init /\ [][Next]_vars

\* The asyncio event loop runs every task that is ready, and a read of either
\* endpoint returns (with data or empty) when its timeout expires
LiveSpec ==
    /\ Spec
    /\ WF_vars(BridgeReturn)
    /\ WF_vars(S2KResume)
    /\ WF_vars(K2SResume)
    /\ WF_vars(S2KEmpty \/ \E data \in SerialChunks : S2KRead(data))
    /\ WF_vars((\E peerGone \in BOOLEAN : K2SEmpty(peerGone))
                 \/ \E data \in SocketChunks : K2SRead(data))

\* The same emulator driven by a client that changes settings between
\* sessions and sends full-size frames
SessionCmdChunks == {
    <<65,84,68,13>>,                            \* 'ATD\r'
    <<65,84,72,13>>,                            \* 'ATH\r'
    <<65,84,37,67,49,13>>,                      \* 'AT%C1\r'
    <<65,84,37,67,48,13>>,                      \* 'AT%C0\r'
    <<65,84,38,70,13>>,                         \* 'AT&F\r'
    <<65,84,68,13,65,84,79,13,10>>              \* 'ATD\rATO\r\n'
}

SessionStreams == {
    <<>>,
    <<65,117,116,104,101,110,116,105,99,97,116,105,111,110,32,102,97,105,108,101,100,13,10>>,   \* 'Authentication failed\r\n'
    <<78,69,71,79,84,73,65,84,69,58,50,56,56,48,48,58,86,46,51,52,10>>   \* 'NEGOTIATE:28800:V.34\n'
}

SessionSerialChunks == {
    <<43,43,43>>,                               \* '+++'
    LongFrame                                   \* 64 bytes
}

SessionSocketChunks == {
    <<126,33,126>>                              \* a PPP-like frame
}

SessionNext ==
    \/ \E data \in SessionCmdChunks : CmdRead(data)
    \/ DiscardSegment
    \/ SplitDone
    \/ BasicCommand
    \/ Hangup
    \/ \E stream \in SessionStreams : DialConnect(stream)
    \/ DialConnectFails
    \/ \E k \in {0} \cup ReadCuts(srvStream, 0) : Authenticate(k)
    \/ SendConnectionSequence
    \/ \E k \in ReadCuts(srvStream, srvOff) : NegotiationRead(k)
    \/ NegotiationTimeout
    \/ \E peerGone \in BOOLEAN : BridgeStart(peerGone)
    \/ \E data \in SessionSerialChunks : S2KRead(data)
    \/ S2KEmpty
    \/ S2KResume
    \/ \E data \in SessionSocketChunks : K2SRead(data)
    \/ \E peerGone \in BOOLEAN : K2SEmpty(peerGone)
    \/ K2SResume
    \/ BridgeReturn

SessionSpec == Init /\ [][SessionNext]_vars

\* ------------------------------------- crossbridge.py: bridge_ppp_connection
\* The synchronous bridge of crossbridge.py, called by main (direct mode) and by
\* emulate_modem with an authenticated socket.

\* Chunks one call of bridge_ppp_connection may read, both directions together
MaxBridgeChunks == 2

\* the watchdog threshold and the error limit written in bridge_ppp_connection
InactivityLimit == 300
max_consecutive_errors == 5

\* inactivity_timeout as configured (file or -t): 2 seconds, or the default
InactivityTimeouts == {2, 300}

\* Whole seconds that pass between two readings of time.time() at the loop top
LoopSeconds == {0, 1}

\* What serial_port.read may return in one call
BridgeSerialChunks == {
    <<126,33,126>>,                             \* a PPP-like frame
    <<43,43,43>>,                               \* '+++'
    <<126,43,43,43>>,                           \* '~+++'
    <<43,43,43,126>>                            \* '+++~'
}

\* What socket_connection.recv may return in one call
BridgeSocketChunks == {
    <<126,33,126>>,                             \* a PPP-like frame
    <<255,3,192,33,5,0,0,4>>                    \* LCP Terminate-Request
}

\* socket_connection.sendall(data) under settimeout(0.1): the number of bytes
\* that reached the socket; fewer than len(data) means sendall raised
SendOutcomes(data) == {0, Len(data)}

\* escape_buffer[-n:]
LastBytes(buf, n) == IF Len(buf) > n THEN SubSeq(buf, Len(buf) - n + 1, Len(buf)) ELSE buf

\* escape_buffer.rfind(b"+++"), 1-based; 0 when absent
RFindPlus(buf) ==
    LET hits == {i \in 1..Len(buf) : StartsWith(From(buf, i - 1), escPlus)} IN
    IF hits = {} THEN 0 ELSE CHOOSE i \in hits : \A j \in hits : j <= i

\* the escape test: '+++' in the last 10 bytes and nothing after the last one
EscapeAtEnd(buf) ==
    /\ Contains(LastBytes(buf, 10), escPlus)
    /\ From(buf, RFindPlus(buf) + 2) = <<>>

\* break, or an exception, then the finally clause and return "DISCONNECT"
\* (the locals are gone with the call)
BridgeBreak ==
    /\ pppPc' = "returned"
    /\ pppResult' = "DISCONNECT"
    /\ pppSockClosed' = TRUE
    /\ since_activity' = 0

\* an except clause of the loop, entered with the counter at count:
\* consecutive_errors += 1; break at max_consecutive_errors
CountError(count, next) ==
    /\ consecutive_errors' = count + 1
    /\ IF count + 1 >= max_consecutive_errors
       THEN BridgeBreak
       ELSE pppPc' = next /\ UNCHANGED <<pppResult, pppSockClosed>>

\* the state in which bridge_ppp_connection enters its loop
SyncInit ==
    /\ EmulatorInit
    /\ ModemNotCalled
    /\ NoEndpoint
    /\ MainNotCalled
    /\ ~is_windows       \* IS_WINDOWS only selects a log text in this function
    /\ pppPc = "top"
    /\ pppResult = "none"
    /\ since_activity = 0
    /\ inactivity_timeout \in InactivityTimeouts
    /\ emu_modem \in BOOLEAN
    /\ pppEscape = <<>>
    /\ consecutive_errors = 0
    /\ pppSerialIn = <<>>
    /\ pppSockIn = <<>>
    /\ pppSockSent = <<>>
    /\ pppSerialOut = <<>>
    /\ pppSockClosed = FALSE
    /\ err_runs = NoErrors

\* loop top: current_time = time.time()
LoopTop(d) ==
    /\ pppPc = "top"
    /\ since_activity' = since_activity + d
    /\ pppPc' = "serial"
    /\ UNCHANGED err_runs
    /\ UNCHANGED <<pppResult, callVars, pppEscape, consecutive_errors,
                   pppSerialIn, pppSockIn, pppSockSent, pppSerialOut,
                   pppSockClosed>>
    /\ UNCHANGED nonSyncVars

\* serial side: nothing waiting, or the read returned nothing
SerialIdle ==
    /\ pppPc = "serial"
    /\ pppPc' = "socket"
    /\ UNCHANGED err_runs
    /\ UNCHANGED <<pppResult, since_activity, callVars, pppEscape,
                   consecutive_errors, pppSerialIn, pppSockIn, pppSockSent,
                   pppSerialOut, pppSockClosed>>
    /\ UNCHANGED nonSyncVars

\* serial side: a chunk is read; quiet says whether in_waiting is 0 after the
\* one-second guard sleep, sent is sendall's outcome
SerialRead(data, quiet, sent) ==
    /\ pppPc = "serial"
    /\ Len(pppSerialIn) + Len(pppSockIn) < MaxBridgeChunks
    /\ pppSerialIn' = Append(pppSerialIn, data)
    /\ since_activity' = 0
    /\ LET buf == LastBytes(pppEscape \o data, 20) IN
       /\ pppEscape' = buf
       /\ IF EscapeAtEnd(buf) /\ quiet
          THEN /\ pppSerialOut' = Append(pppSerialOut, msgOK)
               /\ pppPc' = "returned"
               /\ pppResult' = "COMMAND_MODE"
               /\ pppSockClosed' = TRUE
               /\ consecutive_errors' = 0
               /\ err_runs' = [err_runs EXCEPT !.serial = 0]
               /\ UNCHANGED pppSockSent
          ELSE /\ pppSockSent' = pppSockSent \o SubSeq(data, 1, sent)
               /\ IF sent = Len(data)
                  THEN /\ consecutive_errors' = 0
                       /\ err_runs' = [err_runs EXCEPT !.serial = 0]
                       /\ pppPc' = "socket"
                       /\ UNCHANGED <<pppResult, pppSockClosed>>
                  ELSE /\ CountError(0, "socket")
                       /\ err_runs' = [err_runs EXCEPT !.serial = 1]
               /\ UNCHANGED pppSerialOut
    /\ UNCHANGED <<callVars, pppSockIn>>
    /\ UNCHANGED nonSyncVars

\* socket side: recv times out
SocketTimeout ==
    /\ pppPc = "socket"
    /\ pppPc' = "watchdog"
    /\ UNCHANGED err_runs
    /\ UNCHANGED <<pppResult, since_activity, callVars, pppEscape,
                   consecutive_errors, pppSerialIn, pppSockIn, pppSockSent,
                   pppSerialOut, pppSockClosed>>
    /\ UNCHANGED nonSyncVars

\* socket side: recv returns data
SocketRead(data) ==
    /\ pppPc = "socket"
    /\ Len(pppSerialIn) + Len(pppSockIn) < MaxBridgeChunks
    /\ pppSockIn' = Append(pppSockIn, data)
    /\ since_activity' = 0
    /\ consecutive_errors' = 0
    /\ err_runs' = [err_runs EXCEPT !.socket = 0]
    /\ IF IsLcpTerminate(data)
       THEN /\ pppSerialOut' = pppSerialOut \o <<data, msgNoCarrier>>
            /\ BridgeBreak
       ELSE /\ pppSerialOut' = Append(pppSerialOut, data)
            /\ pppPc' = "watchdog"
            /\ UNCHANGED <<pppResult, pppSockClosed>>
    /\ UNCHANGED <<callVars, pppEscape, pppSerialIn, pppSockSent>>
    /\ UNCHANGED nonSyncVars

\* socket side: recv returns b'' or raises ConnectionError
SocketClosed ==
    /\ pppPc = "socket"
    /\ pppSerialOut' = Append(pppSerialOut, msgNoCarrier)
    /\ BridgeBreak
    /\ UNCHANGED err_runs
    /\ UNCHANGED <<callVars, pppEscape, consecutive_errors,
                   pppSerialIn, pppSockIn, pppSockSent>>
    /\ UNCHANGED nonSyncVars

\* the inactivity test at the end of an iteration
Watchdog ==
    /\ pppPc = "watchdog"
    /\ IF since_activity > InactivityLimit
       THEN /\ pppSerialOut' = Append(pppSerialOut, msgNoCarrier)
            /\ BridgeBreak
       ELSE /\ pppPc' = "top"
            /\ UNCHANGED <<pppResult, since_activity, pppSerialOut,
                           pppSockClosed>>
    /\ UNCHANGED err_runs
    /\ UNCHANGED <<callVars, pppEscape, consecutive_errors,
                   pppSerialIn, pppSockIn, pppSockSent>>
    /\ UNCHANGED nonSyncVars

\* one more error in a row for a direction (counted up to the limit)
RunPlus(n) == IF n < max_consecutive_errors THEN n + 1 ELSE n

\* serial side: in_waiting or read raises SerialException or another
\* exception (both except clauses count and test alike)
SerialError ==
    /\ pppPc = "serial"
    /\ CountError(consecutive_errors, "socket")
    /\ IF consecutive_errors + 1 >= max_consecutive_errors
       THEN TRUE
       ELSE UNCHANGED since_activity
    /\ err_runs' = [err_runs EXCEPT !.serial = RunPlus(@)]
    /\ UNCHANGED <<callVars, pppEscape, pppSerialIn, pppSockIn, pppSockSent,
                   pppSerialOut>>
    /\ UNCHANGED nonSyncVars

\* socket side: recv raises something that is neither socket.timeout nor a
\* ConnectionError
SocketError ==
    /\ pppPc = "socket"
    /\ CountError(consecutive_errors, "watchdog")
    /\ IF consecutive_errors + 1 >= max_consecutive_errors
       THEN TRUE
       ELSE UNCHANGED since_activity
    /\ err_runs' = [err_runs EXCEPT !.socket = RunPlus(@)]
    /\ UNCHANGED <<callVars, pppEscape, pppSerialIn, pppSockIn, pppSockSent,
                   pppSerialOut>>
    /\ UNCHANGED nonSyncVars

SyncNext ==
    \/ \E d \in LoopSeconds : LoopTop(d)
    \/ SerialIdle
    \/ \E data \in BridgeSerialChunks, quiet \in BOOLEAN :
          \E sent \in SendOutcomes(data) : SerialRead(data, quiet, sent)
    \/ SocketTimeout
    \/ \E data \in BridgeSocketChunks : SocketRead(data)
    \/ SocketClosed
    \/ Watchdog

SyncSpec == SyncInit /\ [][SyncNext]_vars

\* The same loop with failing endpoints, iterations following each other
\* within one second
ErrorNext ==
    \/ LoopTop(0)
    \/ SerialIdle
    \/ SerialError
    \/ \E data \in BridgeSerialChunks, quiet \in BOOLEAN :
          \E sent \in SendOutcomes(data) : SerialRead(data, quiet, sent)
    \/ SocketTimeout
    \/ SocketError
    \/ \E data \in BridgeSocketChunks : SocketRead(data)
    \/ SocketClosed
    \/ Watchdog

ErrorSpec == SyncInit /\ [][ErrorNext]_vars

\* ------------------------------------------- the command processor alone
\* The command loop of ModemEmulator fed with S-register commands, mode
\* switches and noise: the same loop and processor as in Spec, other inputs.

\* What the serial side may send in one read
RegisterChunks == {
    <<65,84,83,55,61,52,50,13>>,                    \* 'ATS7=42\r'
    <<65,84,83,55,63,13>>,                          \* 'ATS7?\r'
    <<65,84,83,55,61,51,48,48,13>>,                 \* 'ATS7=300\r'
    <<65,84,83,55,61,45,49,13>>,                    \* 'ATS7=-1\r'
    <<65,84,83,49,51,63,13>>,                       \* 'ATS13?\r'
    <<65,84,83,50,53,53,61,55,13>>,                 \* 'ATS255=7\r'
    <<65,84,83,50,53,54,61,55,13>>,                 \* 'ATS256=7\r'
    <<65,84,83,55,13>>,                             \* 'ATS7\r'
    <<65,84,83,55,61,52,61,50,13>>,                 \* 'ATS7=4=2\r'
    <<65,84,86,48,13>>,                             \* 'ATV0\r'
    <<65,84,90,13>>,                                \* 'ATZ\r'
    <<104,101,108,108,111,13>>,                     \* 'hello\r'
    <<120,65,84,83,55,63,13>>,                      \* 'xATS7?\r'
    <<65,84,83,55,61,52,50,13,65,84,83,55,63,13>>   \* 'ATS7=42\rATS7?\r'
}

CmdNext ==
    \/ \E data \in RegisterChunks : CmdRead(data)
    \/ DiscardSegment
    \/ SplitDone
    \/ BasicCommand

CmdSpec == Init /\ [][CmdNext]_vars

\* ------------------------------------------- serial_utils.py: the endpoints
\* One object of UnixSocketConnection, TCPSocketConnection or
\* PhysicalSerialConnection, called by one caller at a time. sock stands for
\* self.sock (self.serial_port) being set, os_open for the socket or port
\* object below it being open.

EndpointKinds == {"unix", "tcp", "physical"}

\* What a caller may hand to write, and what one recv or port read returns
EndpointChunks == {<<65>>, <<65,84,13>>, <<126,33,126,13>>}
ReceivedData == <<126>>

\* the object after a successful _connect
Connected(kind) ==
    [kind |-> kind, sock |-> TRUE, is_closed |-> FALSE, os_open |-> TRUE]

\* the finally clause of close(): the fields it leaves
CloseFieldsKept(kind) == [sock |-> TRUE, is_closed |-> FALSE]

CloseFields(kind) == [sock |-> FALSE, is_closed |-> kind # "physical"]

\* close()
Close(e) ==
    IF e.sock /\ (e.kind = "physical" \/ ~e.is_closed)
    THEN [e EXCEPT !.sock = CloseFields(e.kind).sock,
                   !.is_closed = CloseFields(e.kind).is_closed,
                   !.os_open = FALSE]
    ELSE e

\* how recv (port.read) may end: with data, at end of stream, by timeout (for
\* a Unix socket also with its path gone), by a connection error, by another
\* OSError; on a closed socket object it raises OSError
RecvOutcomes(e) ==
    IF ~e.os_open THEN {"oserror"}
    ELSE CASE e.kind = "unix" -> {"data", "eof", "timeout", "timeout_gone",
                                  "reset", "oserror"}
           [] e.kind = "tcp" -> {"data", "eof", "timeout", "reset", "oserror"}
           [] OTHER -> {"data", "timeout", "oserror"}

\* how the probe of is_connected may end: recv(MSG_PEEK) returning ("ok") or
\* raising socket.timeout, which carries no errno ("timeout"), errno
\* 11/35/10035 ("again"), 32/104 ("pipe"), 10054 ("wsareset"), another errno
\* ("other"; errno 9 on a closed socket object), the path or tty gone,
\* in_waiting raising
PeekOutcomes(e) ==
    IF ~e.os_open THEN {"other"}
    ELSE CASE e.kind = "unix" -> {"ok", "timeout", "again", "pipe", "other",
                                  "path_gone"}
           [] e.kind = "tcp" -> {"ok", "timeout", "again", "pipe", "wsareset",
                                 "other"}
           [] OTHER -> {"ok", "raises", "path_gone"}

\* how send (port.write) may end: the number of bytes accepted, 0 standing for
\* an exception; a socket may accept a part, pyserial writes all or raises
WriteOutcomes(e, data) ==
    IF ~e.os_open THEN {0}
    ELSE IF e.kind = "physical" THEN {0, Len(data)}
    ELSE 0..Len(data)

\* read(size): the object afterwards and the bytes returned
Read(e, outcome) ==
    LET same(d) == [e |-> e, data |-> d, closes |-> FALSE]
        closing == [e |-> Close(e), data |-> <<>>, closes |-> TRUE]
    IN
    IF e.kind = "unix" THEN
        IF ~e.sock \/ e.is_closed THEN same(<<>>)
        ELSE IF outcome = "data" THEN same(ReceivedData)
        ELSE IF outcome = "timeout" THEN same(<<>>)
        ELSE closing
    ELSE IF e.kind = "tcp" THEN
        IF ~e.sock THEN same(<<>>)
        ELSE IF outcome = "data" THEN same(ReceivedData)
        ELSE IF outcome = "timeout" THEN same(<<>>)
        ELSE closing
    ELSE
        IF ~e.sock \/ ~e.os_open THEN same(<<>>)
        ELSE IF outcome = "data" THEN same(ReceivedData)
        ELSE IF outcome = "timeout" THEN same(<<>>)
        ELSE closing

\* write(data): the object afterwards, the count returned and the bytes the
\* peer received
Write(e, data, accepted) ==
    IF ~e.sock THEN [e |-> e, count |-> 0, peer |-> <<>>, closes |-> FALSE]
    ELSE IF accepted > 0
    THEN [e |-> e, count |-> accepted, peer |-> SubSeq(data, 1, accepted),
          closes |-> FALSE]
    ELSE IF e.kind = "physical"
    THEN [e |-> e, count |-> 0, peer |-> <<>>, closes |-> FALSE]
    ELSE [e |-> Close(e), count |-> 0, peer |-> <<>>, closes |-> TRUE]

\* is_connected(): the object afterwards and the answer
IsConnected(e, outcome) ==
    LET yes == [e |-> e, ok |-> TRUE, closes |-> FALSE]
        no == [e |-> e, ok |-> FALSE, closes |-> FALSE]
        closing == [e |-> Close(e), ok |-> FALSE, closes |-> TRUE]
    IN
    IF e.kind = "unix" THEN
        IF ~e.sock \/ e.is_closed THEN no
        ELSE IF outcome = "path_gone" THEN closing
        ELSE IF outcome = "pipe" THEN closing
        ELSE yes
    ELSE IF e.kind = "tcp" THEN
        IF ~e.sock \/ e.is_closed THEN no
        ELSE IF outcome \in {"ok", "again"} THEN yes
        ELSE closing
    ELSE
        IF ~e.sock THEN no
        ELSE IF ~e.os_open THEN no
        ELSE IF outcome = "ok" THEN yes
        ELSE closing

\* an endpoint of one of the three kinds has been constructed
EndpointInit ==
    /\ EmulatorInit
    /\ ModemNotCalled
    /\ ~is_windows
    /\ BridgeNotCalled
    /\ MainNotCalled
    /\ \E kind \in EndpointKinds : serial_connection = Connected(kind)
    /\ ep_peer = <<>>
    /\ ep_last = [op |-> "none", arg |-> <<>>, data |-> <<>>, count |-> 0,
                  ok |-> FALSE, after_close |-> FALSE]
    /\ ep_close_called = FALSE

EndpointRead(outcome) ==
    /\ outcome \in RecvOutcomes(serial_connection)
    /\ LET r == Read(serial_connection, outcome) IN
       /\ serial_connection' = r.e
       /\ ep_last' = [op |-> "read", arg |-> <<>>, data |-> r.data, count |-> 0,
                      ok |-> FALSE, after_close |-> ep_close_called]
       /\ ep_close_called' = (ep_close_called \/ r.closes)
    /\ UNCHANGED ep_peer
    /\ UNCHANGED nonEpVars

EndpointWrite(data, accepted) ==
    /\ accepted \in WriteOutcomes(serial_connection, data)
    /\ LET r == Write(serial_connection, data, accepted) IN
       /\ serial_connection' = r.e
       /\ ep_peer' = r.peer
       /\ ep_last' = [op |-> "write", arg |-> data, data |-> <<>>,
                      count |-> r.count, ok |-> FALSE,
                      after_close |-> ep_close_called]
       /\ ep_close_called' = (ep_close_called \/ r.closes)
    /\ UNCHANGED nonEpVars

EndpointIsConnected(outcome) ==
    /\ outcome \in PeekOutcomes(serial_connection)
    /\ LET r == IsConnected(serial_connection, outcome) IN
       /\ serial_connection' = r.e
       /\ ep_last' = [op |-> "is_connected", arg |-> <<>>, data |-> <<>>,
                      count |-> 0, ok |-> r.ok, after_close |-> ep_close_called]
       /\ ep_close_called' = (ep_close_called \/ r.closes)
    /\ UNCHANGED ep_peer
    /\ UNCHANGED nonEpVars

EndpointClose ==
    /\ serial_connection' = Close(serial_connection)
    /\ ep_last' = [op |-> "close", arg |-> <<>>, data |-> <<>>, count |-> 0,
                   ok |-> FALSE, after_close |-> ep_close_called]
    /\ ep_close_called' = TRUE
    /\ UNCHANGED ep_peer
    /\ UNCHANGED nonEpVars

AllOutcomes ==
    {"data", "eof", "timeout", "timeout_gone", "reset", "oserror", "ok",
     "again", "pipe", "wsareset", "other", "path_gone", "raises"}

EndpointNext ==
    \/ \E outcome \in AllOutcomes : EndpointRead(outcome)
    \/ \E data \in EndpointChunks : \E accepted \in 0..Len(data) :
          EndpointWrite(data, accepted)
    \/ \E outcome \in AllOutcomes : EndpointIsConnected(outcome)
    \/ EndpointClose

EndpointSpec == EndpointInit /\ [][EndpointNext]_vars

\* ------------------------------------------------------------------ main
\* main of crossbridge.py: argument handling, opening the serial device, the
\* direct-mode connection loop, and the finally clause.

MaxRetries == 2

\* server_addr as given: "host:60", "host:abc", "host"
ServerAddrs ==
    {[colon |-> TRUE, port_str |-> <<54,48>>],
     [colon |-> TRUE, port_str |-> <<97,98,99>>],
     [colon |-> FALSE, port_str |-> <<>>]}

\* device: empty, 'tcp:...', 'unix:...', or a tty path
Devices == {"", "tcp", "unix", "tty"}

\* args.retries or config['connection_retries']
RetryChoices == 1..MaxRetries

MainInit ==
    /\ EmulatorInit
    /\ ModemNotCalled
    /\ ~is_windows
    /\ NoEndpoint
    /\ pppPc = "off"
    /\ pppResult = "none"
    /\ since_activity = 0
    /\ inactivity_timeout = 300
    /\ emu_modem \in BOOLEAN
    /\ pppEscape = <<>>
    /\ consecutive_errors = 0
    /\ pppSerialIn = <<>>
    /\ pppSockIn = <<>>
    /\ pppSockSent = <<>>
    /\ pppSerialOut = <<>>
    /\ pppSockClosed = FALSE
    /\ err_runs = NoErrors
    /\ main_pc = "args"
    /\ server_addr \in ServerAddrs
    /\ device \in Devices
    /\ serial_port = "none"
    /\ retry_count = 0
    /\ connection_retries \in RetryChoices
    /\ main_fatal = "none"
    /\ main_pending = -1
    /\ main_return = -1

\* a return statement inside the try: the value waits while finally runs
ReturnInTry(value, fatal) ==
    /\ main_pending' = value
    /\ main_fatal' = fatal
    /\ main_pc' = "finally"

\* server_addr is split and the port parsed; a port that is no integer
\* returns 1 before the try is entered
MainParseArgs ==
    /\ main_pc = "args"
    /\ IF server_addr.colon /\ ~ParseInt(server_addr.port_str).ok
       THEN /\ main_return' = 1
            /\ main_fatal' = "invalid_port"
            /\ main_pc' = "done"
       ELSE /\ main_pc' = "device"
            /\ UNCHANGED <<main_return, main_fatal>>
    /\ UNCHANGED <<server_addr, device, serial_port, retry_count,
                   connection_retries, main_pending>>
    /\ UNCHANGED nonMainVars

\* if not device: return 1
MainCheckDevice ==
    /\ main_pc = "device"
    /\ IF device = ""
       THEN ReturnInTry(1, "no_device")
       ELSE main_pc' = "open" /\ UNCHANGED <<main_pending, main_fatal>>
    /\ UNCHANGED <<server_addr, device, serial_port, retry_count,
                   connection_retries, main_return>>
    /\ UNCHANGED nonMainVars

\* open_tcp_socket / open_unix_socket / open_serial: on failure return 1
MainOpen(ok) ==
    /\ main_pc = "open"
    /\ IF ok
       THEN /\ serial_port' = "open"
            /\ main_pc' = "run"
            /\ UNCHANGED <<main_pending, main_fatal>>
       ELSE /\ ReturnInTry(1, "open_failed")
            /\ UNCHANGED serial_port
    /\ UNCHANGED <<server_addr, device, retry_count, connection_retries,
                   main_return>>
    /\ UNCHANGED nonMainVars

\* if emu_modem: emulate_modem(...) runs until it returns or is interrupted
\* (the signal handler raises SystemExit); else the connection loop starts
MainRun ==
    /\ main_pc = "run"
    /\ IF emu_modem
       THEN main_pc' = "finally" /\ UNCHANGED retry_count
       ELSE /\ retry_count' = 0
            /\ main_pc' = IF 0 < connection_retries THEN "connect"
                          ELSE "finally"
    /\ UNCHANGED <<server_addr, device, serial_port, connection_retries,
                   main_fatal, main_pending, main_return>>
    /\ UNCHANGED nonMainVars

\* one pass of the while loop up to sendall: connected, or socket.timeout /
\* socket.error, after which retry_count goes up and the loop tests it again
MainConnect(ok) ==
    /\ main_pc = "connect"
    /\ retry_count < connection_retries
    /\ IF ok
       THEN main_pc' = "auth" /\ UNCHANGED retry_count
       ELSE /\ retry_count' = retry_count + 1
            /\ main_pc' = IF retry_count + 1 < connection_retries
                          THEN "connect" ELSE "finally"
    /\ UNCHANGED <<server_addr, device, serial_port, connection_retries,
                   main_fatal, main_pending, main_return>>
    /\ UNCHANGED nonMainVars

\* the server's answer to the credentials: 'Authentication failed' in it
\* (return 1), another answer, or none within 5 s
MainAuth(response) ==
    /\ main_pc = "auth"
    /\ IF response = "failed"
       THEN ReturnInTry(1, "auth_rejected")
       ELSE main_pc' = "bridge" /\ UNCHANGED <<main_pending, main_fatal>>
    /\ UNCHANGED <<server_addr, device, serial_port, retry_count,
                   connection_retries, main_return>>
    /\ UNCHANGED nonMainVars

\* bridge_ppp_connection returns (close, break) or the process is signalled
MainBridge ==
    /\ main_pc = "bridge"
    /\ main_pc' = "finally"
    /\ UNCHANGED <<server_addr, device, serial_port, retry_count,
                   connection_retries, main_fatal, main_pending, main_return>>
    /\ UNCHANGED nonMainVars

\* finally: serial_port is closed if set, then 'return 0', which replaces
\* whatever return value the try had reached
MainFinally ==
    /\ main_pc = "finally"
    /\ serial_port' = IF serial_port = "open" THEN "closed" ELSE serial_port
    /\ main_return' = 0
    /\ main_pc' = "done"
    /\ UNCHANGED <<server_addr, device, retry_count, connection_retries,
                   main_fatal, main_pending>>
    /\ UNCHANGED nonMainVars

AuthResponses == {"failed", "welcome", "timeout"}

MainNext ==
    \/ MainParseArgs
    \/ MainCheckDevice
    \/ \E ok \in BOOLEAN : MainOpen(ok)
    \/ MainRun
    \/ \E ok \in BOOLEAN : MainConnect(ok)
    \/ \E response \in AuthResponses : MainAuth(response)
    \/ MainBridge
    \/ MainFinally

MainSpec == MainInit /\ [][MainNext]_vars

\* ------------------------------------------------------------------ claims

\* C1: whenever a bridging session ends because the serial side sent the +++
\* escape, the modem is left with mode=COMMAND, connected=true, and the TCP
\* endpoint still open and still owned by the connection state.
C1_EscapeKeepsConnection ==
    event = "bridge_escape" =>
        /\ in_command_mode
        /\ connected
        /\ socket_connection # 0
        /\ sock[socket_connection].state = "open"

\* C2: after an escape to command mode with the TCP endpoint kept, the command
\* ATO puts the modem back in DATA mode, still on that same endpoint.
C2_AtoResumesData ==
    [][ ( /\ event' = "basic"
          /\ lastCmd' = <<65,84,79>>
          /\ in_command_mode
          /\ socket_connection # 0
          /\ sock[socket_connection].state = "open" )
        => ( /\ ~in_command_mode'
             /\ socket_connection' = socket_connection
             /\ sock'[socket_connection].state = "open" ) ]_vars

\* C3: ATH or ATH0 issued in command mode closes the owned TCP endpoint if
\* there is one and clears the reference, writes OK to serial, and leaves
\* connected=false, mode=COMMAND.
C3_HangupClosesAndClears ==
    [][ (event' \in {"hangup", "hangup_close"} /\ in_command_mode) =>
          /\ lastCmd' \in {<<65,84,72>>, <<65,84,72,48>>}
          /\ socket_connection # 0 =>
                /\ event' = "hangup_close"
                /\ sock'[socket_connection].state = "closed"
          /\ socket_connection' = 0
          /\ ~connected'
          /\ in_command_mode'
          /\ serialOut' = Append(serialOut, msgOK) ]_vars

\* C3 witness: an ATH that was the first command of a serial read in command
\* mode (OK is the only response since that read) has closed the endpoint the
\* modem had kept, and cleared the reference.
C3_Witness ==
    /\ event = "hangup_close"
    /\ lastCmd = <<65,84,72>>
    /\ serialOut = <<msgOK>>
    /\ \E id \in 1..MaxDials : sock[id].state = "closed" /\ sock[id].closes = 1
    /\ \A id \in 1..MaxDials : sock[id].state # "open"
    /\ socket_connection = 0 /\ ~connected /\ in_command_mode

\* C4: when the server's authentication response contains 'Authentication
\* failed', the dial writes NO CARRIER and no CONNECT line, closes the endpoint
\* it opened, and the modem is in mode=COMMAND with connected=false.
C4_AuthRejected ==
    [][ event' = "auth_failed" =>
          /\ serialOut' = Append(serialOut, msgNoCarrier)
          /\ \A i \in (dialMark + 1)..Len(serialOut') :
                ~StartsWith(serialOut'[i], msgConnectPrefix)
          /\ sock'[socket_transport].state = "closed"
          /\ in_command_mode'
          /\ ~connected' ]_vars

\* C5: a CONNECT line is written only after authentication and speed
\* negotiation have both succeeded: no dial that ends with NO CARRIER has
\* written a CONNECT line before it.
C5_ConnectOnlyAfterHandshake ==
    event \in {"connect_failed", "auth_failed", "neg_failed"} =>
        \A i \in (dialMark + 1)..Len(serialOut) :
            ~StartsWith(serialOut[i], msgConnectPrefix)

\* C6: for every successful dial, the digits of the CONNECT line written to
\* serial equal the speed carried by the server's NEGOTIATE:<speed>:<type>
\* line of that dial.
C6_ConnectSpeedIsNegotiated ==
    event = "dial_ok" =>
        LET serverSpeed == NegotiateLines(SplitOn(Decode(srvStream), LF)) IN
        \E i \in (dialMark + 1)..Len(serialOut) :
            StartsWith(serialOut[i], msgConnectPrefix \o serverSpeed)
            /\ serialOut[i][Len(msgConnectPrefix \o serverSpeed) + 1] \notin 48..57

\* C7: when authentication is not rejected and no NEGOTIATE line arrives within
\* the negotiation deadline, the dial still succeeds with the configured
\* connect_speed: connected=true, mode=DATA, and NO CARRIER is not written.
C7_TimeoutFallsBack ==
    ( /\ event \in {"neg_failed", "dial_ok"}
      /\ ~Contains(SubSeq(srvStream, authLen + 1, Len(srvStream)), kwNEGOTIATE) )
    => /\ connected
       /\ ~in_command_mode
       /\ \A i \in (dialMark + 1)..Len(serialOut) : serialOut[i] # msgNoCarrier
       /\ \E i \in (dialMark + 1)..Len(serialOut) :
             serialOut[i] = ConnectMessage(connect_speed, compression_enabled,
                                           error_correction_enabled)

\* C8: during speed negotiation a server line beginning with ERROR: makes the
\* handshake fail (NO CARRIER, connected=false), whatever follows that line.
C8_ErrorLineRejects ==
    ( /\ event \in {"neg_failed", "dial_ok"}
      /\ LET lines == SplitOn(Decode(SubSeq(srvStream, authLen + 1, srvOff)), LF) IN
         \E i \in 1..Len(lines) :
            StartsWith(Strip(lines[i]), <<69,82,82,79,82,58>>) )
    => /\ event = "neg_failed"
       /\ ~connected
       /\ serialOut[Len(serialOut)] = msgNoCarrier

\* C9: while bridging, a server read that contains FF 03 C0 21 05 or
\* FF 03 C0 21 06 is forwarded to serial, then NO CARRIER is written and the
\* session is over: the socket direction reads no further chunk, and the
\* bridge returns with connected=false, mode=COMMAND and the endpoint closed.
C9_LcpTerminateEndsSession ==
    /\ (pc = "bridging" /\ session.lcp) => k2s # "read"
    /\ (event \in {"bridge_escape", "bridge_disconnect"} /\ session.lcp) =>
          /\ ~connected
          /\ in_command_mode
          /\ sock[socket_connection].state = "closed"
          /\ \E i \in (session.mark + 1)..(Len(serialOut) - 1) :
                IsLcpTerminate(serialOut[i]) /\ serialOut[i + 1] = msgNoCarrier

\* C10: while bridging, when a read from the TCP endpoint is empty and the
\* endpoint reports not alive, the bridge stops, NO CARRIER is written to
\* serial exactly once, the endpoint is closed, and the modem ends with
\* connected=false and mode=COMMAND.
C10_PeerClosedTearsDown ==
    (event \in {"bridge_escape", "bridge_disconnect"} /\ session.peerClosed) =>
        /\ Cardinality({i \in (session.mark + 1)..Len(serialOut) :
                            serialOut[i] = msgNoCarrier}) = 1
        /\ sock[socket_connection].state = "closed"
        /\ sock[socket_connection].closes = 1
        /\ ~connected
        /\ in_command_mode

\* C11: the serial-to-TCP direction signals the escape only when the last
\* three bytes received from serial are exactly +++ (and a quiet second
\* follows); a +++ with more serial data after it does not end the bridge.
C11_EscapeNeedsTrailingPlus ==
    (pc = "bridging" /\ s2k = "done" /\ in_command_mode) =>
        /\ Len(escape_buffer) >= 3
        /\ SubSeq(escape_buffer, Len(escape_buffer) - 2, Len(escape_buffer)) = escPlus

\* C13: when compression was never requested, every chunk read from the TCP
\* endpoint is written to serial byte-for-byte unchanged, also a chunk that
\* begins with 1B 43.
C13_NoCodecForwardsUnchanged ==
    [][ \A data \in SocketChunks :
          (K2SRead(data) /\ ~compression_enabled /\ ~codec_enabled)
          => serialOut' = Append(serialOut, data) ]_vars

\* C14: if neither the serial endpoint nor the TCP endpoint delivers any byte
\* and both stay alive, the bridge eventually stops with the inactivity
\* outcome: NO CARRIER on serial, connected=false, mode=COMMAND.  (The chunks
\* of a session are bounded, so a session that never ends is silent from some
\* point on.)
C14_SilenceEndsBridge ==
    (pc = "bridging") ~>
        ( /\ pc = "loop"
          /\ ~connected
          /\ in_command_mode
          /\ \/ event = "bridge_escape"
             \/ serialOut # <<>> /\ serialOut[Len(serialOut)] = msgNoCarrier )

\* C16: after every return of _bridge_ppp_data on an owned endpoint, either
\* the outcome was the escape and the endpoint is kept open, or the endpoint
\* has been closed exactly once; the return taken when the socket is found
\* dead before bridging starts is included.
C16_TeardownComplete ==
    event \in {"bridge_deadsocket", "bridge_escape", "bridge_disconnect"} =>
        \/ event = "bridge_escape" /\ sock[socket_connection].state = "open"
        \/ /\ sock[socket_connection].state = "closed"
           /\ sock[socket_connection].closes = 1

\* C17: an ATD issued while the modem still holds a TCP endpoint closes that
\* endpoint before the new one replaces it: at no time is there an open TCP
\* endpoint that neither the connection state nor the dial in progress
\* references.
C17_NoOrphanEndpoint ==
    \A i \in 1..MaxDials :
        sock[i].state = "open" => (i = socket_connection \/ i = socket_transport)

\* C18: once a successful dial has switched the modem to DATA mode, no serial
\* segment is handled as an AT command until the modem is back in COMMAND
\* mode, segments of the same serial read as the ATD included.
C18_NoCommandInDataMode ==
    [][ event' \in {"basic", "hangup", "hangup_close", "dialing", "connect_failed"}
        => in_command_mode ]_vars

\* C19: in every reachable state, connected=true implies that
\* socket_connection is set.
C19_ConnectedOwnsEndpoint == connected => socket_connection # 0

\* C19 witness: a dial has just succeeded; the modem is connected and owns the
\* open endpoint of that dial.
C19_Witness ==
    /\ event = "dial_ok"
    /\ connected
    /\ socket_connection # 0
    /\ socket_connection = socket_transport
    /\ sock[socket_connection].state = "open"

\* C20: whenever a bridging session ends because of the escape sequence, OK is
\* written to serial after the CONNECT line of that session and before the
\* response to any later command.
C20_EscapeWritesOk ==
    event = "bridge_escape" =>
        \E i \in (session.mark + 1)..Len(serialOut) :
            serialOut[i] \in {msgOK, FormatResponse(verbose_responses, txtOK)}

\* the bytes of a sequence of chunks, in order
RECURSIVE Concat(_)
Concat(chunks) ==
    IF chunks = <<>> THEN <<>> ELSE Head(chunks) \o Concat(Tail(chunks))

\* C12: in bridge_ppp_connection the bytes sent to the server socket are exactly
\* the concatenation, in read order, of the chunks read from serial, the chunk
\* on which the escape is signalled excepted.
C12_SerialToServerTransparent ==
    pppPc # "off" =>
        pppSockSent = Concat(IF pppResult = "COMMAND_MODE"
                             THEN SubSeq(pppSerialIn, 1, Len(pppSerialIn) - 1)
                             ELSE pppSerialIn)

\* C15: bridge_ppp_connection does not start another iteration once the two
\* sides have been silent for more than the configured inactivity_timeout
\* seconds: it has ended the session with NO CARRIER.
C15_ConfiguredInactivityEnds ==
    (pppPc = "top" /\ pppResult = "none") => since_activity <= inactivity_timeout


\* C21: when bridge_ppp_connection returns COMMAND_MODE after an escape, the
\* server socket has not been closed, so that emulate_modem's ATO can bridge
\* again on the same open socket.
C21_EscapeKeepsSocketOpen ==
    pppResult = "COMMAND_MODE" => ~pppSockClosed

\* C22: in direct mode (main calls bridge_ppp_connection, no modem emulation)
\* '+++' from serial followed by silence neither ends the bridge nor writes to
\* serial: the bytes go to the server like any payload.
C22_DirectModeIgnoresEscape ==
    ~emu_modem =>
        /\ pppResult # "COMMAND_MODE"
        /\ \A i \in 1..Len(pppSerialOut) : pppSerialOut[i] # msgOK

\* C23: every S-register value is in 0..255 in every reachable state; ATS<n>=<v>
\* stores v mod 256.
C23_RegistersAreBytes ==
    \A n \in DOMAIN s_registers : s_registers[n] \in 0..255

\* the segment being processed is ATS<n>? with n in 0..255
IsRegisterQuery(command) ==
    /\ StartsWith(command, kwATS)
    /\ IndexOf(command, 61) = 0
    /\ command[Len(command)] = 63
    /\ ParseInt(SubSeq(command, 4, Len(command) - 1)).ok
    /\ ParseInt(SubSeq(command, 4, Len(command) - 1)).val \in 0..255

\* C24: for every register n in 0..255, ATS<n>? writes the register's current
\* value as three decimal digits, then OK (so after ATS<n>=<v> it prints v).
C24_QueryPrintsRegister ==
    [][ (BasicCommand /\ IsRegisterQuery(NextCommand)) =>
          LET n == ParseInt(SubSeq(NextCommand, 4, Len(NextCommand) - 1)).val IN
          \E value \in 0..255 :
              /\ n \in DOMAIN s_registers => value = s_registers[n] % 256
              /\ serialOut' = serialOut \o
                    <<FormatResponse(verbose_responses, Format03d(value)),
                      FormatResponse(verbose_responses, txtOK)>> ]_vars

\* the verbose forms of the result codes, and of the digit 0
VerboseResults ==
    {CRLF \o t \o CRLF : t \in {txtOK, txtERROR, txtNOCARRIER, txtBUSY,
                                txtNODIALTONE, <<48>>}}

\* C25: after ATV0 and until ATV1/ATZ every result code written to serial is
\* its single digit followed by CR: no step that leaves the modem in
\* non-verbose mode (the ATV0 step included) writes a result code in words, or
\* the digit in CR LF framing.
C25_NonVerboseWritesDigits ==
    [][ ~verbose_responses' =>
          \A i \in (Len(serialOut) + 1)..Len(serialOut') :
              serialOut'[i] \notin VerboseResults ]_vars

\* C26: a CR-terminated segment that contains AT after leading noise is handled
\* as the command starting at the first AT: it is never dropped.
C26_NoiseBeforeAtTolerated ==
    [][ DiscardSegment => ~Contains(Upper(Decode(NextSegment)), kwAT) ]_vars

\* C27: a non-empty CR-terminated segment that holds no AT command is discarded
\* and ERROR is written to serial.
C27_NonCommandAnswersError ==
    [][ ( /\ DiscardSegment
          /\ Strip(Decode(NextSegment)) # <<>>
          /\ ~Contains(Upper(Decode(NextSegment)), kwAT) )
        => serialOut' = Append(serialOut, FormatResponse(verbose_responses, txtERROR))
      ]_vars

\* C28: for each endpoint kind, once close() has run every read returns empty
\* bytes, every write returns 0 and is_connected answers false, whatever
\* calls follow.
C28_ClosedEndpointStaysClosed ==
    ep_last.after_close =>
        /\ ep_last.op = "read" => ep_last.data = <<>>
        /\ ep_last.op = "write" => ep_last.count = 0 /\ ep_peer = <<>>
        /\ ep_last.op = "is_connected" => ~ep_last.ok

C28_Witness ==
    /\ ep_last.after_close
    /\ ep_last.op = "is_connected"
    /\ serial_connection.kind = "unix"
    /\ ~ep_last.ok

\* C29: a write that succeeds delivers the whole chunk: the peer receives every
\* byte and the count returned is the chunk's length, also when the send below
\* accepts only a part at first.
C29_WriteDeliversWholeChunk ==
    (ep_last.op = "write" /\ ep_last.count > 0) =>
        /\ ep_last.count = Len(ep_last.arg)
        /\ ep_peer = ep_last.arg

\* C30: main returns exit status 1 on a fatal error (direct-mode
\* authentication rejected, serial device cannot be opened, no device
\* configured) and 0 only on normal shutdown.
C30_FatalErrorExitsOne ==
    main_pc = "done" =>
        /\ main_fatal \in {"auth_rejected", "open_failed", "no_device"}
              => main_return = 1
        /\ main_return = 0 => main_fatal = "none"

\* C33: when one copy direction of the bridge stops, the other is cancelled
\* and has finished before _bridge_ppp_data returns: after the return no copy
\* task of that session is running, and exactly one outcome is acted on,
\* escape (endpoint and serial left alone) or disconnect (endpoint closed,
\* NO CARRIER written).
C33_ReturnLeavesNoTask ==
    [][ (pc = "bridging" /\ pc' = "loop") =>
          /\ s2k' = "idle" /\ k2s' = "idle"
          /\ \/ /\ in_command_mode' /\ sock' = sock /\ serialOut' = serialOut
             \/ /\ in_command_mode' /\ ~connected'
                /\ sock' = SockClose(socket_connection)
                /\ serialOut' = Append(serialOut, msgNoCarrier) ]_vars

\* C33 witness: a session in which the serial direction had copied a chunk
\* ended because the socket direction saw the peer close; _bridge_ppp_data has
\* returned with the disconnect outcome and both tasks finished.
C33_Witness ==
    /\ pc = "loop"
    /\ event = "bridge_disconnect"
    /\ session.peerClosed /\ session.sr > 0
    /\ s2k = "idle" /\ k2s = "idle"

\* C34: in the bridge, once one direction has signalled stop (connected set
\* false), the other direction writes no further payload chunk to its peer.
C34_NoWriteAfterStop ==
    [][ (pc = "bridging" /\ ~connected /\ pc' = "bridging") =>
          /\ sockSent' = sockSent
          /\ serialOut' = serialOut ]_vars

\* C37: at the start of every iteration of the command-processing loop the
\* modem is in command mode or connected.
C37_LoopTopHasWork == pc = "loop" => (in_command_mode \/ connected)

\* C37 witness: the loop is back at its top after a bridging session that
\* ended by disconnect.
C37_Witness ==
    /\ pc = "loop"
    /\ event = "bridge_disconnect"
    /\ in_command_mode /\ ~connected

\* C40: every AT command other than the dial and hangup families leaves the
\* connection state unchanged: connected, mode and the owned endpoint.
C40_BasicCommandKeepsConnection ==
    [][ (event' = "basic" /\ ~IsDial(lastCmd') /\ ~IsHangup(lastCmd')) =>
          /\ connected' = connected
          /\ in_command_mode' = in_command_mode
          /\ socket_connection' = socket_connection
          /\ sock' = sock ]_vars

\* C40 witness: a command that is neither dial nor hangup has been processed
\* while the modem was connected and owned an open endpoint (the command
\* followed a successful dial in the same serial read).
C40_Witness ==
    /\ event = "basic"
    /\ ~IsDial(lastCmd) /\ ~IsHangup(lastCmd)
    /\ connected /\ ~in_command_mode
    /\ socket_connection # 0
    /\ sock[socket_connection].state = "open"

\* C39: the compression setting in force when a bridging session starts
\* decides that session: in a session started with compression off (after
\* AT%C0 or AT&F, even if an earlier session ran with AT%C1) every serial
\* chunk is sent to the server unchanged.
C39_SettingAtStartDecides ==
    [][ (pc = "bridging" /\ ~compression_enabled /\ Len(sockSent') > Len(sockSent))
          => \E data \in SessionSerialChunks :
                sockSent' = Append(sockSent, data) ]_vars

\* C35: in the dial, a single NEGOTIATE:<speed>:<type> line sent by the server
\* within the deadline is recognised whatever way the TCP stream is cut into
\* reads (in the same read as the authentication response, or split across two
\* reads): the negotiation does not run into its timeout.
C35_NegotiateSurvivesCuts ==
    [][ ( /\ Contains(srvStream, kwNEGOTIATE)
          /\ ~Contains(srvStream, txtERROR)
          /\ pc = "neg" )
        => event' # "neg_failed" ]_vars

\* C36: in bridge_ppp_connection transient I/O errors are counted per
\* direction: the bridge ends on the error limit only when one direction has
\* had 5 consecutive errors; errors of one direction never count toward the
\* other's limit.
C36_ErrorsCountedPerDirection ==
    (pppPc = "returned" /\ consecutive_errors >= max_consecutive_errors) =>
        \/ err_runs.serial >= max_consecutive_errors
        \/ err_runs.socket >= max_consecutive_errors

\* ======================================================================
\* crossbridge.py, emulate_modem: the modem emulation of the synchronous
\* program (option -e).  One call of the function; its serial reads, the
\* outcome of each connection attempt and the value each call of
\* bridge_ppp_connection returns are the inputs.
\* ======================================================================
\* non-empty reads one call of emulate_modem may make
MaxModemReads == 3

pppFlagEscape == <<126,125>>   \* b'~}'
pppFlag == <<126>>   \* b'\x7e'
pppAddressControl == <<255,3>>   \* b'\xff\x03'
kwATO == <<65,84,79>>   \* 'ATO'
kwATH0 == <<65,84,72,48>>   \* 'ATH0'
msgConnecting == <<13,10,67,79,78,78,69,67,84,73,78,71,13,10>>   \* b'\r\nCONNECTING\r\n'
msgConnect33600 == <<13,10,67,79,78,78,69,67,84,32,51,51,54,48,48,13,10>>   \* b'\r\nCONNECT 33600\r\n'
msgError == <<13,10,69,82,82,79,82,13,10>>   \* b'\r\nERROR\r\n'

\* what serial_port.read(in_waiting) may return to emulate_modem
ModemChunks == {
    <<65,84,68,13>>,                    \* 'ATD\r'
    <<65,84,68,13,65,84,68,13>>,        \* 'ATD\rATD\r'
    <<65,84,79,13>>,                    \* 'ATO\r'
    <<65,84,72,13>>,                    \* 'ATH\r'
    <<120,97,116,122,13>>,              \* 'xatz\r'
    <<13>>,                             \* '\r'
    <<120,13>>,                         \* 'x\r'
    <<126,125,35>>,                     \* '~}#'
    <<126,125,35,13>>,                  \* '~}#\r'
    <<255,3>> }                         \* FF 03

\* how one connection attempt of the first dial ends: connect() raises,
\* the server answers 'Authentication failed', or it answers
\* anything else or nothing within the two seconds
DialOutcomes == {"raised", "auth_failed", "accepted"}

\* line 125: the three PPP patterns looked for in data
HasPppMarker(data) ==
    \/ Contains(data, pppFlagEscape)
    \/ Contains(data, pppFlag)
    \/ Contains(data, pppAddressControl)

\* bytes.strip(): ASCII whitespace
BytesWhitespace == {32, 9, 10, 11, 12, 13}

RECURSIVE BytesLStrip(_)
BytesLStrip(s) ==
    IF s # <<>> /\ s[1] \in BytesWhitespace THEN BytesLStrip(Tail(s)) ELSE s

RECURSIVE BytesRStrip(_)
BytesRStrip(s) ==
    IF s # <<>> /\ s[Len(s)] \in BytesWhitespace
    THEN BytesRStrip(SubSeq(s, 1, Len(s) - 1)) ELSE s

\* line 155: cmd_bytes.strip().decode("ascii", errors="ignore").upper()
CommandText(cmd_bytes) ==
    Upper(SelectSeq(BytesRStrip(BytesLStrip(cmd_bytes)), LAMBDA b : b < 128))

\* lines 163-166: what precedes the first "AT" is cut off
ExtractAT(cmd) ==
    IF StartsWith(cmd, kwAT) THEN cmd
    ELSE LET at_index ==
                 CHOOSE i \in 1..Len(cmd) :
                     /\ SubSeq(cmd, i, i + 1) = kwAT
                     /\ \A j \in 1..(i - 1) : SubSeq(cmd, j, j + 1) # kwAT
         IN SubSeq(cmd, at_index, Len(cmd))

\* the command the for loop is at, as it reaches the branches of line 169 on
CurrentCmd ==
    LET cmd == CommandText(Head(command_parts)) IN
    IF Contains(cmd, kwAT) THEN ExtractAT(cmd) ELSE cmd

InParts == em_pc = "parts" /\ Len(command_parts) > 1
IsATCmd == Contains(CommandText(Head(command_parts)), kwAT)
IsDialCmd == IsATCmd /\ StartsWith(CurrentCmd, kwATD)
IsOnlineCmd ==
    IsATCmd /\ CurrentCmd = kwATO /\ em_connected /\ em_socket # "none"
IsHangupCmd == IsATCmd /\ CurrentCmd \in {kwATH, kwATH0}
\* line 296; cmd is ASCII, so cmd.encode() has the same byte values
IsPppLikeCmd ==
    /\ ~IsATCmd
    /\ connection_established
    /\ (Contains(CurrentCmd, pppFlagEscape) \/ Contains(CurrentCmd, pppFlag))

\* the locals after a hangup (lines 271-278) and after a bridge that did not
\* return "COMMAND_MODE" (lines 141-148 and their four copies)
ResetKeepsEstablished ==
    [socket |-> "none", connected |-> FALSE, established |-> TRUE]
ResetState ==
    [socket |-> "none", connected |-> FALSE, established |-> FALSE]

ModemStateVars ==
    <<em_in_command_mode, em_connected, em_socket, connection_established,
      dial_count, ppp_data_received, first_connect_time>>

\* emulate_modem is called: lines 108-116
ModemCalled ==
    /\ em_pc = "top"
    /\ em_in_command_mode = TRUE
    /\ em_connected = FALSE
    /\ em_socket = "none"
    /\ em_command_buffer = <<>>
    /\ connection_established = FALSE
    /\ dial_count = 0
    /\ ppp_data_received = FALSE
    /\ first_connect_time = "zero"
    /\ command_parts = <<>>
    /\ bridge_result = [call |-> "none", value |-> "none"]
    /\ em_sent = <<>>
    /\ em_serial_out = <<>>
    /\ em_data = <<>>
    /\ em_reads = 0
    /\ em_dials = 0

ModemInit ==
    /\ EmulatorInit
    /\ ~is_windows
    /\ BridgeNotCalled
    /\ NoEndpoint
    /\ MainNotCalled
    /\ ModemCalled

\* lines 129-134 and 300-304: sendall, then the call of bridge_ppp_connection;
\* sendall on a socket that has been closed raises OSError, which the handler
\* of line 356 takes
SendThenBridge(chunk, call) ==
    IF em_socket = "open"
    THEN /\ em_sent' = Append(em_sent, chunk)
         /\ em_in_command_mode' = FALSE
         /\ em_pc' = "bridge"
         /\ bridge_result' = [call |-> call, value |-> "none"]
    ELSE /\ em_pc' = "failed"
         /\ UNCHANGED <<em_sent, em_in_command_mode, bridge_result>>

\* lines 119-150: a non-empty read; PPP data met while the connection is
\* established is sent on and bridging starts, anything else goes to the
\* command parser of line 152 or, without a CR, to the check of line 326
ModemRead(data) ==
    /\ em_pc = "top"
    /\ em_in_command_mode
    /\ em_reads < MaxModemReads
    /\ em_reads' = em_reads + 1
    /\ em_data' = data
    /\ em_command_buffer' = em_command_buffer \o data
    /\ IF connection_established /\ ~ppp_data_received /\ HasPppMarker(data)
       THEN /\ ppp_data_received' = TRUE
            /\ IF em_socket # "none"
               THEN SendThenBridge(data, "ppp")
               ELSE /\ em_pc' = "top"
                    /\ UNCHANGED <<em_sent, em_in_command_mode, bridge_result>>
            /\ UNCHANGED command_parts
       ELSE /\ IF Contains(em_command_buffer', <<CR>>)
               THEN /\ command_parts' = SplitOn(em_command_buffer', CR)
                    /\ em_pc' = "parts"
               ELSE /\ em_pc' = "timer"
                    /\ UNCHANGED command_parts
            /\ UNCHANGED <<ppp_data_received, em_sent, em_in_command_mode,
                           bridge_result>>
    /\ UNCHANGED <<em_connected, em_socket, connection_established, dial_count,
                   first_connect_time, em_serial_out, em_dials>>
    /\ UNCHANGED nonModemVars

\* line 120: nothing is waiting on the serial port
ModemIdle ==
    /\ em_pc = "top"
    /\ em_in_command_mode
    /\ em_pc' = "timer"
    /\ UNCHANGED <<ModemStateVars, em_command_buffer, command_parts,
                   bridge_result, em_sent, em_serial_out, em_data, em_reads,
                   em_dials>>
    /\ UNCHANGED nonModemVars

\* lines 157-158: an empty command
EmptyPart ==
    /\ InParts
    /\ CurrentCmd = <<>>
    /\ command_parts' = Tail(command_parts)
    /\ UNCHANGED <<em_pc, ModemStateVars, em_command_buffer, bridge_result,
                   em_sent, em_serial_out, em_data, em_reads, em_dials>>
    /\ UNCHANGED nonModemVars

\* lines 169-220: ATD while no connection is established
FirstDial(outcome) ==
    /\ InParts
    /\ IsDialCmd
    /\ ~connection_established
    /\ command_parts' = Tail(command_parts)
    /\ CASE outcome = "raised" ->
              /\ em_serial_out' = em_serial_out \o <<msgConnecting, msgNoCarrier>>
              /\ em_socket' = "none"
              /\ connection_established' = FALSE
              /\ dial_count' = 0
              /\ UNCHANGED <<em_connected, first_connect_time, em_sent, em_dials>>
         [] outcome = "auth_failed" ->
              /\ em_serial_out' = em_serial_out \o <<msgConnecting, msgNoCarrier>>
              /\ em_sent' = Append(em_sent, authString)
              /\ em_dials' = em_dials + 1
              /\ em_socket' = "none"
              /\ dial_count' = dial_count + 1
              /\ UNCHANGED <<em_connected, connection_established,
                             first_connect_time>>
         [] outcome = "accepted" ->
              /\ em_serial_out' = em_serial_out \o <<msgConnecting, msgConnect33600>>
              /\ em_sent' = Append(em_sent, authString)
              /\ em_dials' = em_dials + 1
              /\ em_socket' = "open"
              /\ dial_count' = dial_count + 1
              /\ connection_established' = TRUE
              /\ em_connected' = TRUE
              /\ first_connect_time' = "recent"
    /\ UNCHANGED <<em_pc, em_in_command_mode, ppp_data_received,
                   em_command_buffer, bridge_result, em_data, em_reads>>
    /\ UNCHANGED nonModemVars

\* lines 222-229: ATD while a connection is established
SecondDial ==
    /\ InParts
    /\ IsDialCmd
    /\ connection_established
    /\ command_parts' = Tail(command_parts)
    /\ dial_count' = dial_count + 1
    /\ em_serial_out' = Append(em_serial_out, msgConnect33600)
    /\ em_in_command_mode' = FALSE
    /\ IF em_socket # "none"
       THEN /\ em_pc' = "bridge"
            /\ bridge_result' = [call |-> "dial", value |-> "none"]
       ELSE UNCHANGED <<em_pc, bridge_result>>
    /\ UNCHANGED <<em_connected, em_socket, connection_established,
                   ppp_data_received, first_connect_time, em_command_buffer,
                   em_sent, em_data, em_reads, em_dials>>
    /\ UNCHANGED nonModemVars

\* lines 245-251: ATO while connected
OnlineCommand ==
    /\ InParts
    /\ ~IsDialCmd
    /\ IsOnlineCmd
    /\ command_parts' = Tail(command_parts)
    /\ em_serial_out' = Append(em_serial_out, msgConnect33600)
    /\ em_in_command_mode' = FALSE
    /\ em_pc' = "bridge"
    /\ bridge_result' = [call |-> "ato", value |-> "none"]
    /\ UNCHANGED <<em_connected, em_socket, connection_established, dial_count,
                   ppp_data_received, first_connect_time, em_command_buffer,
                   em_sent, em_data, em_reads, em_dials>>
    /\ UNCHANGED nonModemVars

\* lines 267-278: ATH, ATH0
HangupCommand ==
    /\ InParts
    /\ ~IsDialCmd
    /\ ~IsOnlineCmd
    /\ IsHangupCmd
    /\ command_parts' = Tail(command_parts)
    /\ em_serial_out' = Append(em_serial_out, msgOK)
    /\ em_socket' = ResetState.socket
    /\ em_connected' = ResetState.connected
    /\ connection_established' = ResetState.established
    /\ dial_count' = 0
    /\ ppp_data_received' = FALSE
    /\ first_connect_time' = "zero"
    /\ UNCHANGED <<em_pc, em_in_command_mode, em_command_buffer, bridge_result,
                   em_sent, em_data, em_reads, em_dials>>
    /\ UNCHANGED nonModemVars

\* lines 280-293: every other command holding "AT" is answered OK
OtherATCommand ==
    /\ InParts
    /\ IsATCmd
    /\ ~IsDialCmd
    /\ ~IsOnlineCmd
    /\ ~IsHangupCmd
    /\ command_parts' = Tail(command_parts)
    /\ em_serial_out' = Append(em_serial_out, msgOK)
    /\ UNCHANGED <<em_pc, ModemStateVars, em_command_buffer, bridge_result,
                   em_sent, em_data, em_reads, em_dials>>
    /\ UNCHANGED nonModemVars

\* lines 296-304: a command without "AT" that holds a PPP flag
PppLikeCommand ==
    /\ InParts
    /\ CurrentCmd # <<>>
    /\ IsPppLikeCmd
    /\ command_parts' = Tail(command_parts)
    /\ ppp_data_received' = TRUE
    /\ IF em_socket # "none"
       THEN SendThenBridge(Append(Head(command_parts), CR), "nonat")
       ELSE UNCHANGED <<em_pc, em_sent, em_in_command_mode, bridge_result>>
    /\ UNCHANGED <<em_connected, em_socket, connection_established, dial_count,
                   first_connect_time, em_command_buffer, em_serial_out,
                   em_data, em_reads, em_dials>>
    /\ UNCHANGED nonModemVars

\* lines 319-322: any other command without "AT"
NonATCommand ==
    /\ InParts
    /\ CurrentCmd # <<>>
    /\ ~IsATCmd
    /\ ~IsPppLikeCmd
    /\ command_parts' = Tail(command_parts)
    /\ em_serial_out' = Append(em_serial_out, msgError)
    /\ UNCHANGED <<em_pc, ModemStateVars, em_command_buffer, bridge_result,
                   em_sent, em_data, em_reads, em_dials>>
    /\ UNCHANGED nonModemVars

\* line 324: the for loop is over, what follows the last CR is kept
PartsDone ==
    /\ em_pc = "parts"
    /\ Len(command_parts) = 1
    /\ em_command_buffer' = command_parts[1]
    /\ command_parts' = <<>>
    /\ em_pc' = "timer"
    /\ UNCHANGED <<ModemStateVars, bridge_result, em_sent, em_serial_out,
                   em_data, em_reads, em_dials>>
    /\ UNCHANGED nonModemVars

\* lines 326-334 and 350: ten seconds after the first connect without PPP
\* data, bridging starts on its own; late says whether time.time() has
\* passed first_connect_time + 10 by now
TimeoutCheck(late) ==
    /\ em_pc = "timer"
    /\ first_connect_time' =
           IF first_connect_time = "recent" /\ late THEN "overdue"
           ELSE first_connect_time
    /\ IF connection_established /\ ~ppp_data_received
          /\ first_connect_time' = "overdue"
       THEN /\ em_in_command_mode' = FALSE
            /\ ppp_data_received' = TRUE
            /\ IF em_socket # "none"
               THEN /\ em_pc' = "bridge"
                    /\ bridge_result' = [call |-> "timer", value |-> "none"]
               ELSE /\ em_pc' = "top"
                    /\ UNCHANGED bridge_result
       ELSE /\ em_pc' = "top"
            /\ UNCHANGED <<em_in_command_mode, ppp_data_received, bridge_result>>
    /\ UNCHANGED <<em_connected, em_socket, connection_established, dial_count,
                   em_command_buffer, command_parts, em_sent, em_serial_out,
                   em_data, em_reads, em_dials>>
    /\ UNCHANGED nonModemVars

\* where emulate_modem goes on after a call of bridge_ppp_connection that
\* returned "COMMAND_MODE": the continue of line 150, the for loop, or the
\* sleep of line 350
AfterBridge(call) ==
    CASE call = "ppp" -> "top"
      [] call = "timer" -> "top"
      [] OTHER -> "parts"

\* bridge_ppp_connection returns.  Its finally clause has closed the socket
\* it was given; on a socket that was closed before the call its first
\* statement raises and it returns "DISCONNECT".  Lines 136-149, 231-243,
\* 253-265, 306-318, 336-348.
BridgeReturns(value) ==
    /\ em_pc = "bridge"
    /\ em_socket = "closed" => value = "DISCONNECT"
    /\ bridge_result' = [bridge_result EXCEPT !.value = value]
    /\ IF value = "COMMAND_MODE"
       THEN /\ em_in_command_mode' = TRUE
            /\ em_socket' = "closed"
            /\ ppp_data_received' =
                   IF bridge_result.call \in {"ppp", "nonat", "timer"}
                   THEN FALSE ELSE ppp_data_received
            /\ em_pc' = AfterBridge(bridge_result.call)
            /\ UNCHANGED <<em_connected, connection_established, dial_count,
                           first_connect_time, em_serial_out>>
       ELSE /\ em_socket' = ResetState.socket
            /\ em_connected' = ResetState.connected
            /\ connection_established' = ResetState.established
            /\ dial_count' = 0
            /\ ppp_data_received' = FALSE
            /\ first_connect_time' = "zero"
            /\ em_pc' = "returned"
            /\ UNCHANGED <<em_in_command_mode, em_serial_out>>
    /\ UNCHANGED <<em_command_buffer, command_parts, em_sent, em_data,
                   em_reads, em_dials>>
    /\ UNCHANGED nonModemVars

ModemNext ==
    \/ \E data \in ModemChunks : ModemRead(data)
    \/ ModemIdle
    \/ EmptyPart
    \/ \E outcome \in DialOutcomes : FirstDial(outcome)
    \/ SecondDial
    \/ OnlineCommand
    \/ HangupCommand
    \/ OtherATCommand
    \/ PppLikeCommand
    \/ NonATCommand
    \/ PartsDone
    \/ \E late \in BOOLEAN : TimeoutCheck(late)
    \/ \E value \in {"COMMAND_MODE", "DISCONNECT"} : BridgeReturns(value)

ModemSpec == ModemInit /\ [][ModemNext]_vars

\* C38: in emulate_modem, in_command_mode is true at the top of every
\* iteration of the main loop, and connection_established implies a server
\* socket that is not None; the branch "Unexpected transition to data mode"
\* of line 352 is therefore never taken.
C38_LoopTopInCommandMode ==
    /\ em_pc = "top" => em_in_command_mode
    /\ connection_established => em_socket # "none"

\* the loop top is reached again after a bridged session that began with a
\* second dial and ended with the escape sequence
C38_Witness ==
    /\ em_pc = "top"
    /\ em_in_command_mode
    /\ connection_established
    /\ bridge_result = [call |-> "dial", value |-> "COMMAND_MODE"]

\* C32: in emulate_modem, when a bridged session ends with an outcome other
\* than "COMMAND_MODE" the function goes on serving the serial port in
\* command mode, so that a later ATD is processed.
C32_DisconnectKeepsServing ==
    [][ (em_pc = "bridge" /\ bridge_result'.value = "DISCONNECT")
          => em_pc' \in {"top", "parts", "timer"} /\ em_in_command_mode' ]_vars

\* C31: in emulate_modem, a read made in command mode while the connection
\* is established whose data holds '~}', 0x7E or FF 03 is sent to the server
\* socket as it is, once, and bridging starts.
C31_PppDataForwardedOnce ==
    [][ (/\ em_pc = "top"
         /\ em_reads' = em_reads + 1
         /\ connection_established
         /\ HasPppMarker(em_data'))
          => /\ em_sent' = Append(em_sent, em_data')
             /\ em_pc' = "bridge" ]_vars

====
